---- MODULE Spec2Model ----
(***************************************************************************)
(* Expense Report: statement import, receipt ingestion and the tiered      *)
(* receipt-to-transaction matcher, over the SQLite store.                  *)
(*                                                                         *)
(* The program modelled is the one server.js assembles: the store module   *)
(* that exports createUser/findUserByUsername (src/unnamed/part_001 lines  *)
(* 1-268), importStatement (src/db.js lines 229-354), matcher.js and       *)
(* email-poller.js.                                                        *)
(*                                                                         *)
(* Abstractions of values:                                                 *)
(*   - SHA-256 is an injective tagging of the hashed content;              *)
(*   - a CSV line is the record of its fields, a file is its sequence of   *)
(*     lines ("" is a blank line);                                         *)
(*   - a date string is the tuple of its separator and its numeric parts   *)
(*     in the order the string carries them: "11/03/2024" is               *)
(*     <<"/", 11, 3, 2024>> and "2024-11-03" is <<"-", 2024, 11, 3>>;      *)
(*   - a decimal amount string "44.04" is <<44, 4>>;                       *)
(*   - a Date value is counted in hours since 2024-01-01T00:00Z (every     *)
(*     value the program builds is a local midnight, a whole hour);        *)
(*   - a nullable column or field is a tuple: <<>> is NULL (and the empty  *)
(*     string, which the code treats alike), <<v>> is the value v.         *)
(***************************************************************************)
EXTENDS Integers, Sequences, FiniteSets, TLC

VARIABLES
  statements,    \* rows of table statements
  transactions,  \* rows of table transactions
  receipts,      \* rows of table receipts
  seq,           \* sqlite_sequence (AUTOINCREMENT) and the file names handed out
  uploads,       \* image files present in uploads/
  req,           \* POST /receipts requests: their position and response
  inbox,         \* unseen messages of the IMAP mailbox
  env,           \* process environment: time zone, MISTRAL_API_KEY present
  ret,           \* the last call of importStatement: its user and bytes,
                 \* what it answered, and the ids of the receipts it left
  clicks         \* DELETE requests sent by an unlink button, not yet served
                 \* without a transaction

vars == <<statements, transactions, receipts, seq, uploads, req, inbox, env, ret, clicks>>

store == <<statements, transactions, receipts>>

----------------------------------------------------------------------------
(* Bounds of the model *)

MaxStatements == 2
MaxUploads == 2

----------------------------------------------------------------------------
(* Values *)

Null == <<>>
Some(v) == <<v>>
Val(o) == o[1]

Users == {1, 2}
Slots == 1..MaxUploads

sha256(x) == <<"sha256", x>>

Abs(x) == IF x < 0 THEN -x ELSE x

\* F of x: gives one name to a value that is read several times.
With(x, F(_)) == F(x)

----------------------------------------------------------------------------
(* Dates.  new Date(iso + 'T00:00:00') is LOCAL midnight of that day.      *)

DaysBefore(m) ==
  CASE m = 1 -> 0 [] m = 2 -> 31 [] m = 3 -> 60 [] m = 4 -> 91 [] m = 5 -> 121
    [] m = 6 -> 152 [] m = 7 -> 182 [] m = 8 -> 213 [] m = 9 -> 244
    [] m = 10 -> 274 [] m = 11 -> 305 [] OTHER -> 335

\* The strings the Date constructor accepts here: YYYY-MM-DD of 2024.
IsIsoDate(s) ==
  /\ Len(s) = 4
  /\ s[1] = "-"
  /\ s[2] = 2024
  /\ s[3] \in 1..12
  /\ s[4] \in 1..28

\* Hours west of UTC at local midnight of 2024-mm-dd.  New York leaves
\* standard time on 10 March and returns to it on 3 November, at 02:00.
UtcOffset(tz, m, d) ==
  IF tz = "America/New_York"
  THEN IF (m < 3 \/ (m = 3 /\ d <= 10)) \/ (m > 11 \/ (m = 11 /\ d > 3))
       THEN 5 ELSE 4
  ELSE 0

\* new Date(s + 'T00:00:00').getTime(), in hours; Null is the Invalid Date (NaN).
NewDate(tz, s) ==
  IF IsIsoDate(s)
  THEN Some(24 * (DaysBefore(s[3]) + s[4] - 1) + UtcOffset(tz, s[3], s[4]))
  ELSE Null

\* Math.abs((txnDate - receiptDate) / (1000*60*60*24)), kept as hours; Null is NaN.
diffDays(tz, posted_date, receipt_date) ==
  LET txnDate == NewDate(tz, posted_date)
      receiptDate == NewDate(tz, receipt_date)
  IN  IF txnDate = Null \/ receiptDate = Null THEN Null
      ELSE Some(Abs(Val(txnDate) - Val(receiptDate)))

\* s.split('/'): the parts of a '/'-separated string, else the string whole.
splitSlash(s) ==
  IF s # Null /\ s[1] = "/" THEN SubSeq(s, 2, Len(s)) ELSE <<s>>

\* csv-import parseDate: `${yyyy}-${mm}-${dd}` of mmddyyyy.split('/');
\* dd.padStart throws a TypeError when the string holds no '/'.
parseDate(mmddyyyy) ==
  LET parts == splitSlash(mmddyyyy)
  IN  IF Len(parts) < 2 THEN [threw |-> TRUE, value |-> Null]
      ELSE [threw |-> FALSE,
            value |-> <<"-", IF Len(parts) >= 3 THEN parts[3] ELSE 0, parts[1], parts[2]>>]

\* server.js parseDateToISO: MM/DD/YYYY is reordered, any other string is kept.
parseDateToISO(dateStr) ==
  IF dateStr = Null THEN Null
  ELSE LET parts == splitSlash(dateStr)
       IN  IF Len(parts) = 3 THEN <<"-", parts[3], parts[1], parts[2]>> ELSE dateStr

----------------------------------------------------------------------------
(* Amounts *)

\* Math.round(parseFloat(s) * 100) of a decimal string; Null is NaN.
parseFloatCents(s) ==
  IF Len(s) = 2 THEN Some(s[1] * 100 + s[2]) ELSE Null

\* csv-import parseCents: NaN for a string that is no number.
parseCentsCsv(amountStr) == parseFloatCents(amountStr)

\* The conversion that drops the cents of the total.
parseCentsWholeDollars(totalStr) ==
  IF totalStr = Null THEN Null ELSE Some(totalStr[1] * 100)

\* server.js parseCents: null for no string and for NaN.
parseCents(totalStr) ==
  IF totalStr = Null THEN Null ELSE parseFloatCents(totalStr)

----------------------------------------------------------------------------
(* Vendor names and descriptions are sequences of whitespace-separated tokens *)

toLowerCase(tok) ==
  CASE tok \in {"CHIPOTLE", "Chipotle", "chipotle"} -> "chipotle"
    [] tok \in {"DUNKIN", "Dunkin", "dunkin"} -> "dunkin"
    [] tok = "MEX" -> "mex"
    [] tok = "GR" -> "gr"
    [] OTHER -> tok

tokenOverlap(receiptVendor, txnDescription) ==
  IF receiptVendor = Null \/ txnDescription = Null THEN 0
  ELSE LET descTokens == {toLowerCase(txnDescription[i]) : i \in DOMAIN txnDescription}
       IN  Cardinality({i \in DOMAIN receiptVendor :
                          toLowerCase(receiptVendor[i]) \in descTokens})

----------------------------------------------------------------------------
(* matcher.js *)

\* EXISTS (SELECT 1 FROM receipts r WHERE r.transaction_id = t.id)
hasReceipt(rs, t) == \E r \in rs : r.transaction_id = Some(t.id)

\* The comparator that orders by dateDiff first and by overlap second.
sortsBeforeDateFirst(a, b) ==
  \/ a.dateDiff < b.dateDiff
  \/ a.dateDiff = b.dateDiff /\ a.overlap > b.overlap

\* scored.sort's comparator: overlap descending, then dateDiff ascending.
sortsBefore(a, b) ==
  \/ a.overlap > b.overlap
  \/ a.overlap = b.overlap /\ a.dateDiff < b.dateDiff

\* scored[0].txn after the sort, or Null when scored[1] equals scored[0] on
\* overlap and on dateDiff.
bestOf(scored) ==
  With({x \in scored : \A y \in scored : ~sortsBefore(y, x)}, LAMBDA first :
       IF Cardinality(first) > 1 THEN Null
       ELSE Some((CHOOSE x \in first : TRUE).txn))

\* The amounts compared with a tolerance of one cent.
amountMatchesWithinCent(receipt, candidates) ==
  {t \in candidates :
     receipt.total_cents # Null /\ Abs(t.amount_cents - Val(receipt.total_cents)) <= 1}

\* candidates.filter(t => t.amount_cents === receipt.total_cents)
amountMatches(receipt, candidates) ==
  {t \in candidates : Some(t.amount_cents) = receipt.total_cents}

findBestMatch(tz, receipt, candidates) ==
  LET dateMatches ==
        {t \in amountMatches(receipt, candidates) :
           LET d == diffDays(tz, t.posted_date, receipt.receipt_date)
           IN  d # Null /\ Val(d) <= 2 * 24}
      scored ==
        {[txn |-> t,
          overlap |-> tokenOverlap(receipt.vendor, t.description),
          dateDiff |-> Val(diffDays(tz, t.posted_date, receipt.receipt_date))]
           : t \in dateMatches}
  IN  IF amountMatches(receipt, candidates) = {} THEN Null
      ELSE IF dateMatches = {} THEN Null
      ELSE bestOf(scored)

\* The same function on the array it is given, step by step.
\* diffDays <= 2 of the date filter.
withinTwoDays(tz, receipt, t) ==
  With(diffDays(tz, t.posted_date, receipt.receipt_date), LAMBDA d :
       d # Null /\ Val(d) <= 2 * 24)

\* dateMatches.map(t => ({ txn: t, overlap, dateDiff }))
score(tz, receipt, t) ==
  [txn |-> t,
   overlap |-> tokenOverlap(receipt.vendor, t.description),
   dateDiff |-> Val(diffDays(tz, t.posted_date, receipt.receipt_date))]

\* Array.prototype.sort is stable: x goes behind the elements that the
\* comparator does not put after it.
insertSorted(x, sorted) ==
  With(Cardinality({k \in DOMAIN sorted : ~sortsBefore(x, sorted[k])}), LAMBDA n :
       SubSeq(sorted, 1, n) \o <<x>> \o SubSeq(sorted, n + 1, Len(sorted)))

RECURSIVE sortScored(_)
sortScored(scored) ==
  IF scored = <<>> THEN <<>>
  ELSE insertSorted(scored[Len(scored)], sortScored(SubSeq(scored, 1, Len(scored) - 1)))

\* The reduction that returns scored[0] without looking at scored[1].
bestOfSortedFirst(scored) == Some(scored[1].txn)

\* best = scored[0]; null when scored[1] has its overlap and its dateDiff.
bestOfSorted(scored) ==
  IF /\ Len(scored) > 1
     /\ scored[2].overlap = scored[1].overlap
     /\ scored[2].dateDiff = scored[1].dateDiff
  THEN Null
  ELSE Some(scored[1].txn)

amountMatchesOrdered(receipt, candidates) ==
  SelectSeq(candidates, LAMBDA t : Some(t.amount_cents) = receipt.total_cents)

dateMatchesOrdered(tz, receipt, candidates) ==
  SelectSeq(amountMatchesOrdered(receipt, candidates),
            LAMBDA t : withinTwoDays(tz, receipt, t))

findBestMatchOrdered(tz, receipt, candidates) ==
  With(dateMatchesOrdered(tz, receipt, candidates), LAMBDA dateMatches :
       IF Len(amountMatchesOrdered(receipt, candidates)) = 0 THEN Null
       ELSE IF Len(dateMatches) = 0 THEN Null
       ELSE bestOfSorted(sortScored([i \in DOMAIN dateMatches |->
                                       score(tz, receipt, dateMatches[i])])))

\* The matcher without the precondition on the date: a receipt that has no
\* date is matched on its amount alone.
matchReceiptNoPrecondition(tz, txns, rs, receiptId) ==
  LET found == {r \in rs : r.id = receiptId}
      receipt == CHOOSE r \in found : TRUE
      unlinked == {t \in txns : ~hasReceipt(rs, t) /\ t.receipt_required = 1}
  IN  IF found = {} THEN [best |-> Null, receipts |-> rs]
      ELSE With(bestOf({[txn |-> t, overlap |-> 0, dateDiff |-> 0]
                          : t \in amountMatches(receipt, unlinked)}),
                LAMBDA best :
                IF amountMatches(receipt, unlinked) = {} \/ best = Null
                THEN [best |-> Null, receipts |-> rs]
                ELSE [best |-> best,
                      receipts |-> (rs \ {receipt}) \cup
                                   {[receipt EXCEPT !.transaction_id = Some(Val(best).id)]}])

\* Tier 1: transactions with no receipt linked; tier 2: those with one.
\* The queries carry no user filter.
\* The matcher whose tier queries leave out AND t.receipt_required = 1.
matchReceiptIgnoresExempt(tz, txns, rs, receiptId) ==
  LET found == {r \in rs : r.id = receiptId}
      receipt == CHOOSE r \in found : TRUE
      unlinked == {t \in txns : ~hasReceipt(rs, t)}
      linked == {t \in txns : hasReceipt(rs, t)}
  IN  IF found = {} THEN [best |-> Null, receipts |-> rs]
      ELSE IF receipt.total_cents = Null \/ receipt.receipt_date = Null
      THEN [best |-> Null, receipts |-> rs]
      ELSE With(findBestMatch(tz, receipt, unlinked), LAMBDA tier1 :
           With(IF tier1 # Null THEN tier1 ELSE findBestMatch(tz, receipt, linked),
                LAMBDA best :
                IF best = Null THEN [best |-> Null, receipts |-> rs]
                ELSE [best |-> best,
                      receipts |-> (rs \ {receipt}) \cup
                                   {[receipt EXCEPT !.transaction_id = Some(Val(best).id)]}]))

matchReceipt(tz, txns, rs, receiptId) ==
  LET found == {r \in rs : r.id = receiptId}
      receipt == CHOOSE r \in found : TRUE
      unlinked == {t \in txns : ~hasReceipt(rs, t) /\ t.receipt_required = 1}
      linked == {t \in txns : hasReceipt(rs, t) /\ t.receipt_required = 1}
  IN  IF found = {} THEN [best |-> Null, receipts |-> rs]
      ELSE IF receipt.total_cents = Null \/ receipt.receipt_date = Null
      THEN [best |-> Null, receipts |-> rs]
      ELSE With(findBestMatch(tz, receipt, unlinked), LAMBDA tier1 :
           With(IF tier1 # Null THEN tier1 ELSE findBestMatch(tz, receipt, linked),
                LAMBDA best :
                IF best = Null THEN [best |-> Null, receipts |-> rs]
                ELSE [best |-> best,
                      receipts |-> (rs \ {receipt}) \cup
                                   {[receipt EXCEPT !.transaction_id = Some(Val(best).id)]}]))

\* The ids of a set of rows, in rowid order.
RECURSIVE idsAscending(_)
idsAscending(rows) ==
  IF rows = {} THEN <<>>
  ELSE LET lo == CHOOSE r \in rows : \A q \in rows : r.id <= q.id
       IN  <<lo.id>> \o idsAscending(rows \ {lo})

\* The sweep that reads the candidates of every orphan before it writes
\* any link: each orphan is matched on the store as the sweep found it.
matchEachStale(tz, txns, rs, orphans, i) ==
  {IF \E k \in DOMAIN orphans : orphans[k] = r.id
   THEN CHOOSE x \in matchReceipt(tz, txns, rs, r.id).receipts : x.id = r.id
   ELSE r : r \in rs}

RECURSIVE matchEach(_, _, _, _, _)
matchEach(tz, txns, rs, orphans, i) ==
  IF i > Len(orphans) THEN rs
  ELSE matchEach(tz, txns, matchReceipt(tz, txns, rs, orphans[i]).receipts, orphans, i + 1)

\* The sweep that matches every receipt again, linked or not.
matchOrphanReceiptsAll(tz, txns, rs) ==
  matchEach(tz, txns, rs, idsAscending(rs), 1)

\* The sweep: every receipt with a NULL transaction_id, of every user.
matchOrphanReceipts(tz, txns, rs) ==
  LET orphans == idsAscending({r \in rs : r.transaction_id = Null})
  IN  matchEach(tz, txns, rs, orphans, 1)

----------------------------------------------------------------------------
(* The store's prepared statements *)

\* The lookup that finds no row.
findStatementByHashMiss(stmts, fileSha, userId) == {}

\* SELECT * FROM statements WHERE file_sha256 = ? AND user_id = ?
findStatementByHash(stmts, fileSha, userId) ==
  {s \in stmts : s.file_sha256 = fileSha /\ s.user_id = userId}

\* INSERT INTO statements; the column file_sha256 is UNIQUE over the table.
insertStatement(db, fileSha, userId) ==
  IF \E s \in db.statements : s.file_sha256 = fileSha
  THEN [threw |-> TRUE, lastInsertRowid |-> 0, db |-> db]
  ELSE [threw |-> FALSE,
        lastInsertRowid |-> db.seq.statements + 1,
        db |-> [db EXCEPT
                  !.statements = @ \cup {[id |-> db.seq.statements + 1,
                                          user_id |-> userId,
                                          file_sha256 |-> fileSha]},
                  !.seq.statements = @ + 1]]

\* INSERT OR IGNORE INTO transactions: a row that breaks NOT NULL (NaN binds
\* as NULL), UNIQUE(statement_id, row_number) or UNIQUE(statement_id,
\* raw_row_hash) is dropped and changes is 0.
insertTransaction(db, row) ==
  IF \/ row.amount_cents = Null
     \/ \E t \in db.transactions :
          /\ t.statement_id = row.statement_id
          /\ t.row_number = row.row_number \/ t.raw_row_hash = row.raw_row_hash
  THEN [changes |-> 0, db |-> db]
  ELSE [changes |-> 1,
        db |-> [db EXCEPT
                  !.transactions = @ \cup {[id |-> db.seq.transactions + 1,
                                            statement_id |-> row.statement_id,
                                            row_number |-> row.row_number,
                                            posted_date |-> row.posted_date,
                                            description |-> row.description,
                                            amount_cents |-> Val(row.amount_cents),
                                            receipt_required |-> 1,
                                            verified |-> 0,
                                            raw_row_text |-> row.raw_row_text,
                                            raw_row_hash |-> row.raw_row_hash]},
                  !.seq.transactions = @ + 1]]

----------------------------------------------------------------------------
(* csv-import: importStatement *)

\* A line of the file that holds characters, and the empty line.
Line(date, description, debit) ==
  [chars |-> TRUE, date |-> date, description |-> description, debit |-> debit]
BlankLine == [chars |-> FALSE, date |-> Null, description |-> Null, debit |-> Null]

\* Status,Date,Description,Debit,Credit,Member Name
parseCSVRow(line) == [date |-> line.date, description |-> line.description, debit |-> line.debit]

\* The loop body that treats a line without amount as an error.
importRowAbortsOnNoAmount(acc, rawLine, i, statementId) ==
  LET fields == parseCSVRow(rawLine)
      postedDate == parseDate(fields.date)
      result == insertTransaction(acc.db,
                  [statement_id |-> statementId,
                   row_number |-> i,
                   posted_date |-> postedDate.value,
                   description |-> fields.description,
                   amount_cents |-> parseCentsCsv(fields.debit),
                   raw_row_text |-> rawLine,
                   raw_row_hash |-> sha256(rawLine)])
  IN  IF fields.debit = Null \/ postedDate.threw
      THEN [acc EXCEPT !.threw = TRUE]
      ELSE [threw |-> FALSE,
            db |-> result.db,
            rowsImported |-> acc.rowsImported + result.changes,
            rowsSkipped |-> acc.rowsSkipped + (1 - result.changes)]

\* The loop body that counts every row it hands to the insert as imported.
importRowCountsEveryInsert(acc, rawLine, i, statementId) ==
  LET fields == parseCSVRow(rawLine)
      postedDate == parseDate(fields.date)
      result == insertTransaction(acc.db,
                  [statement_id |-> statementId,
                   row_number |-> i,
                   posted_date |-> postedDate.value,
                   description |-> fields.description,
                   amount_cents |-> parseCentsCsv(fields.debit),
                   raw_row_text |-> rawLine,
                   raw_row_hash |-> sha256(rawLine)])
  IN  IF fields.debit = Null
      THEN [acc EXCEPT !.rowsSkipped = @ + 1]
      ELSE IF postedDate.threw
      THEN [acc EXCEPT !.threw = TRUE]
      ELSE [threw |-> FALSE,
            db |-> result.db,
            rowsImported |-> acc.rowsImported + 1,
            rowsSkipped |-> acc.rowsSkipped]

\* The body of the loop for the line the code numbers i.  acc.threw:
\* parseDate threw at this line.
importRow(acc, rawLine, i, statementId) ==
  LET fields == parseCSVRow(rawLine)
      debit == fields.debit
      postedDate == parseDate(fields.date)
      result == insertTransaction(acc.db,
                  [statement_id |-> statementId,
                   row_number |-> i,
                   posted_date |-> postedDate.value,
                   description |-> fields.description,
                   amount_cents |-> parseCentsCsv(debit),
                   raw_row_text |-> rawLine,
                   raw_row_hash |-> sha256(rawLine)])
  IN  IF debit = Null
      THEN [acc EXCEPT !.rowsSkipped = @ + 1]
      ELSE IF postedDate.threw
      THEN [acc EXCEPT !.threw = TRUE]
      ELSE [threw |-> FALSE,
            db |-> result.db,
            rowsImported |-> acc.rowsImported + result.changes,
            rowsSkipped |-> acc.rowsSkipped + (1 - result.changes)]

\* The loop over the data lines; lines[1] is the header, so the line the
\* code numbers i is lines[i + 1].
RECURSIVE importRows(_, _, _, _)
importRows(lines, i, statementId, acc) ==
  IF i >= Len(lines) \/ acc.threw THEN acc
  ELSE importRows(lines, i + 1, statementId, importRow(acc, lines[i + 1], i, statementId))

\* The body of db.transaction(): the statement row, then the rows.
importAll(db, lines, fileSha, userId) ==
  LET ins == insertStatement(db, fileSha, userId)
  IN  IF ins.threw
      THEN [threw |-> TRUE, db |-> ins.db, statementId |-> 0,
            rowsImported |-> 0, rowsSkipped |-> 0]
      ELSE With(importRows(lines, 1, ins.lastInsertRowid,
                           [threw |-> FALSE, db |-> ins.db,
                            rowsImported |-> 0, rowsSkipped |-> 0]),
                LAMBDA acc :
                [threw |-> acc.threw, db |-> acc.db,
                 statementId |-> ins.lastInsertRowid,
                 rowsImported |-> acc.rowsImported, rowsSkipped |-> acc.rowsSkipped])

\* The batch run outside a transaction: what it wrote before it threw stays.
dbTransactionNoRollback(before, after) == after.db

\* better-sqlite3's db.transaction: COMMIT when the body returns, ROLLBACK
\* when it throws.
dbTransaction(before, after) == IF after.threw THEN before ELSE after.db

\* The split that keeps the blank lines.
nonBlankLinesKeepsAll(csvBuffer) == csvBuffer

\* lines of the buffer that hold characters
nonBlankLines(csvBuffer) == SelectSeq(csvBuffer, LAMBDA l : l.chars)

\* What importStatement returns (or that it threw) and the store it leaves.
importStatement(db, tz, csvBuffer, userId) ==
  LET fileSha == sha256(csvBuffer)
      existing == findStatementByHash(db.statements, fileSha, userId)
      lines == nonBlankLines(csvBuffer)
  IN  IF existing # {}
      THEN [threw |-> FALSE, imported |-> FALSE, reason |-> "duplicate",
            statementId |-> Some((CHOOSE s \in existing : TRUE).id),
            rowsImported |-> Null, rowsSkipped |-> Null, db |-> db]
      ELSE IF Len(lines) < 2
      THEN [threw |-> FALSE, imported |-> FALSE, reason |-> "empty",
            statementId |-> Null, rowsImported |-> Null, rowsSkipped |-> Null,
            db |-> db]
      ELSE With(importAll(db, lines, fileSha, userId), LAMBDA run :
           With(dbTransaction(db, run), LAMBDA committed :
                IF run.threw
                THEN [threw |-> TRUE, imported |-> FALSE, reason |-> "",
                      statementId |-> Null, rowsImported |-> Null, rowsSkipped |-> Null,
                      db |-> committed]
                ELSE [threw |-> FALSE, imported |-> TRUE, reason |-> "",
                      statementId |-> Some(run.statementId),
                      rowsImported |-> Some(run.rowsImported),
                      rowsSkipped |-> Some(run.rowsSkipped),
                      db |-> [committed EXCEPT
                                !.receipts = matchOrphanReceipts(tz, committed.transactions, @)]]))

----------------------------------------------------------------------------
(* Receipts *)

\* The insert into a table that has no index on image_sha256.
insertReceiptNoIndex(db, params) ==
  IF "user_id" \notin DOMAIN params
  THEN [threw |-> TRUE, code |-> "RangeError", lastInsertRowid |-> 0, db |-> db]
  ELSE [threw |-> FALSE, code |-> "",
        lastInsertRowid |-> db.seq.receipts + 1,
        db |-> [db EXCEPT
                  !.receipts = @ \cup {[id |-> db.seq.receipts + 1,
                                        user_id |-> params.user_id,
                                        transaction_id |-> params.transaction_id,
                                        vendor |-> params.vendor,
                                        receipt_date |-> params.receipt_date,
                                        total_cents |-> params.total_cents,
                                        total_text |-> params.total_text,
                                        image_path |-> params.image_path,
                                        image_sha256 |-> params.image_sha256,
                                        source |-> params.source]},
                  !.seq.receipts = @ + 1]]

\* The insert behind a UNIQUE index on (user_id, receipt_date, total_cents):
\* a receipt with the date and the amount of another is refused.
insertReceiptContentUnique(db, params) ==
  IF "user_id" \notin DOMAIN params
  THEN [threw |-> TRUE, code |-> "RangeError", lastInsertRowid |-> 0, db |-> db]
  ELSE IF \/ /\ params.image_sha256 # Null
             /\ \E r \in db.receipts : r.image_sha256 = params.image_sha256
          \/ /\ params.receipt_date # Null
             /\ params.total_cents # Null
             /\ \E r \in db.receipts :
                  /\ r.user_id = params.user_id
                  /\ r.receipt_date = params.receipt_date
                  /\ r.total_cents = params.total_cents
  THEN [threw |-> TRUE, code |-> "SQLITE_CONSTRAINT_UNIQUE", lastInsertRowid |-> 0, db |-> db]
  ELSE insertReceiptNoIndex(db, params)

\* INSERT INTO receipts (..., @user_id).  better-sqlite3 refuses to run a
\* statement when a named parameter is missing from the object it is given
\* (RangeError); the index receipts_image_sha256_uq is UNIQUE over the whole
\* table, for the rows whose image_sha256 is not NULL.
insertReceipt(db, params) ==
  IF "user_id" \notin DOMAIN params
  THEN [threw |-> TRUE, code |-> "RangeError", lastInsertRowid |-> 0, db |-> db]
  ELSE IF /\ params.image_sha256 # Null
          /\ \E r \in db.receipts : r.image_sha256 = params.image_sha256
  THEN [threw |-> TRUE, code |-> "SQLITE_CONSTRAINT_UNIQUE", lastInsertRowid |-> 0, db |-> db]
  ELSE [threw |-> FALSE, code |-> "",
        lastInsertRowid |-> db.seq.receipts + 1,
        db |-> [db EXCEPT
                  !.receipts = @ \cup {[id |-> db.seq.receipts + 1,
                                        user_id |-> params.user_id,
                                        transaction_id |-> params.transaction_id,
                                        vendor |-> params.vendor,
                                        receipt_date |-> params.receipt_date,
                                        total_cents |-> params.total_cents,
                                        total_text |-> params.total_text,
                                        image_path |-> params.image_path,
                                        image_sha256 |-> params.image_sha256,
                                        source |-> params.source]},
                  !.seq.receipts = @ + 1]]

\* The link that also marks the transaction as verified.
linkReceiptMarksVerified(db, receiptId, txnId) ==
  IF \A t \in db.transactions : t.id # txnId
  THEN [threw |-> TRUE, db |-> db]
  ELSE [threw |-> FALSE,
        db |-> [db EXCEPT
                  !.receipts =
                    {IF r.id = receiptId THEN [r EXCEPT !.transaction_id = Some(txnId)] ELSE r
                       : r \in @},
                  !.transactions =
                    {IF t.id = txnId THEN [t EXCEPT !.verified = 1] ELSE t : t \in @}]]

\* UPDATE receipts SET transaction_id = @transaction_id WHERE id = @receipt_id,
\* under foreign_keys = ON.
linkReceipt(db, receiptId, txnId) ==
  IF \A t \in db.transactions : t.id # txnId
  THEN [threw |-> TRUE, db |-> db]
  ELSE [threw |-> FALSE,
        db |-> [db EXCEPT !.receipts =
                  {IF r.id = receiptId THEN [r EXCEPT !.transaction_id = Some(txnId)] ELSE r
                     : r \in @}]]

\* The unlink that removes the row.
unlinkReceiptDeletes(db, receiptId) ==
  [db EXCEPT !.receipts = {r \in @ : r.id # receiptId}]

\* UPDATE receipts SET transaction_id = NULL WHERE id = ?
unlinkReceipt(db, receiptId) ==
  [db EXCEPT !.receipts =
     {IF r.id = receiptId THEN [r EXCEPT !.transaction_id = Null] ELSE r : r \in @}]

\* DELETE FROM receipts WHERE id = ?
deleteReceipt(db, receiptId) ==
  [db EXCEPT !.receipts = {r \in @ : r.id # receiptId}]

\* SELECT * FROM receipts WHERE id = ? AND user_id = ?
receiptOfUser(db, receiptId, userId) ==
  {r \in db.receipts : r.id = receiptId /\ r.user_id = userId}

\* SELECT * FROM receipts WHERE transaction_id IS NULL AND user_id = ?
getOrphanReceipts(db, userId) ==
  {r \in db.receipts : r.transaction_id = Null /\ r.user_id = userId}

\* UPDATE transactions SET verified = @value WHERE id = @transaction_id
setVerified(db, value, txnId) ==
  [db EXCEPT !.transactions =
     {IF t.id = txnId THEN [t EXCEPT !.verified = value] ELSE t : t \in @}]

\* UPDATE transactions SET receipt_required = @value WHERE id = @transaction_id
setReceiptRequired(db, value, txnId) ==
  [db EXCEPT !.transactions =
     {IF t.id = txnId THEN [t EXCEPT !.receipt_required = value] ELSE t : t \in @}]

\* receipts.transaction_id REFERENCES transactions(id) ON DELETE SET NULL:
\* the receipts after the transactions gone are deleted.
onDeleteSetNull(rs, gone) ==
  {IF \E t \in gone : r.transaction_id = Some(t.id)
   THEN [r EXCEPT !.transaction_id = Null]
   ELSE r : r \in rs}

\* DELETE FROM transactions WHERE id = ?
deleteTransaction(db, id) ==
  [db EXCEPT !.transactions = {t \in @ : t.id # id},
             !.receipts = onDeleteSetNull(@, {t \in db.transactions : t.id = id})]

\* The delete with foreign_keys off: the rows of the statement go and the
\* receipts keep their references.
deleteStatementNoAction(db, id) ==
  [db EXCEPT !.statements = {x \in @ : x.id # id},
             !.transactions = {t \in @ : t.statement_id # id}]

\* DELETE FROM statements WHERE id = ?, with foreign_keys = ON:
\* transactions.statement_id REFERENCES statements(id) ON DELETE CASCADE,
\* and each cascaded delete sets the references to it to NULL.
deleteStatement(db, id) ==
  [db EXCEPT !.statements = {x \in @ : x.id # id},
             !.transactions = {t \in @ : t.statement_id # id},
             !.receipts = onDeleteSetNull(@, {t \in db.transactions : t.statement_id = id})]

\* (totalCents / 100).toFixed(2)
toFixed2(cents) == <<cents \div 100, cents % 100>>

\* The edit that also clears the verified flag of the receipt's transaction.
updateReceiptResetsVerified(db, params) ==
  [db EXCEPT
     !.receipts = {IF r.id = params.id
                   THEN [r EXCEPT !.vendor = params.vendor,
                                  !.receipt_date = params.receipt_date,
                                  !.total_cents = params.total_cents,
                                  !.total_text = params.total_text]
                   ELSE r : r \in @},
     !.transactions = {IF \E r \in db.receipts :
                            r.id = params.id /\ r.transaction_id = Some(t.id)
                       THEN [t EXCEPT !.verified = 0]
                       ELSE t : t \in @}]

\* UPDATE receipts SET vendor, receipt_date, total_cents, total_text
\* WHERE id = @id
updateReceipt(db, params) ==
  [db EXCEPT
     !.receipts = {IF r.id = params.id
                   THEN [r EXCEPT !.vendor = params.vendor,
                                  !.receipt_date = params.receipt_date,
                                  !.total_cents = params.total_cents,
                                  !.total_text = params.total_text]
                   ELSE r : r \in @}]

\* SELECT t.* FROM transactions t JOIN statements s ON t.statement_id = s.id
\* WHERE t.id = ? AND s.user_id = ?
getTransactionById(db, id, userId) ==
  {t \in db.transactions :
     t.id = id /\ \E s \in db.statements : s.id = t.statement_id /\ s.user_id = userId}

\* The user's transactions: FROM transactions t JOIN statements s ON
\* t.statement_id = s.id WHERE s.user_id = ?
transactionsOf(db, userId) ==
  {t \in db.transactions :
     \E s \in db.statements : s.id = t.statement_id /\ s.user_id = userId}

\* getUnlinkedTransactions: the user's transactions WHERE NOT EXISTS (a
\* receipt that refers to them) AND t.receipt_required = 1.
getUnlinkedTransactions(db, userId) ==
  {t \in transactionsOf(db, userId) : ~hasReceipt(db.receipts, t) /\ t.receipt_required = 1}

\* The summary that counts the rows of transactions joined with receipts.
getStatsJoin(db, userId) ==
  With(transactionsOf(db, userId), LAMBDA base :
       [total |-> Cardinality(base),
        withReceipts |-> Cardinality({p \in base \X db.receipts :
                                        p[2].transaction_id = Some(p[1].id)}),
        exempt |-> Cardinality({t \in base : t.receipt_required = 0}),
        verified |-> Cardinality({t \in base : t.verified = 1}),
        missing |-> Cardinality(base)
                      - Cardinality({p \in base \X db.receipts :
                                       p[2].transaction_id = Some(p[1].id)})
                      - Cardinality({t \in base : t.receipt_required = 0})])

\* getStats: four COUNT(*) queries over the user's transactions, the second
\* with AND EXISTS (SELECT 1 FROM receipts r WHERE r.transaction_id = t.id).
getStats(db, userId) ==
  With(transactionsOf(db, userId), LAMBDA base :
       [total |-> Cardinality(base),
        withReceipts |-> Cardinality({t \in base : hasReceipt(db.receipts, t)}),
        exempt |-> Cardinality({t \in base : t.receipt_required = 0}),
        verified |-> Cardinality({t \in base : t.verified = 1}),
        missing |-> Cardinality(base)
                      - Cardinality({t \in base : hasReceipt(db.receipts, t)})
                      - Cardinality({t \in base : t.receipt_required = 0})])

----------------------------------------------------------------------------
(* State *)

DB == [statements |-> statements, transactions |-> transactions,
       receipts |-> receipts, seq |-> seq]

NoToast == [type |-> "", message |-> ""]
Idle == [pc |-> "idle", user |-> 0, image |-> "", path |-> <<>>, status |-> 0, matched |-> FALSE,
         toast |-> NoToast]

setDB(db) ==
  /\ statements' = db.statements
  /\ transactions' = db.transactions
  /\ receipts' = db.receipts

----------------------------------------------------------------------------
(* server.js: POST /statements *)

PostStatements(u, f) ==
  With(importStatement(DB, env.tz, f, u), LAMBDA r :
       /\ r.db.seq.statements <= MaxStatements
       /\ setDB(r.db)
       /\ seq' = r.db.seq
       /\ ret' = [user |-> u, file_sha256 |-> sha256(f), threw |-> r.threw,
                  imported |-> r.imported, reason |-> r.reason,
                  statementId |-> r.statementId,
                  rowsImported |-> r.rowsImported, rowsSkipped |-> r.rowsSkipped,
                  orphans |-> {x.id : x \in {y \in r.db.receipts : y.transaction_id = Null}}]
       /\ UNCHANGED <<uploads, req, inbox, env, clicks>>)

----------------------------------------------------------------------------
(* server.js: POST /receipts *)

NoParse == [vendor |-> Null, date |-> Null, total |-> Null]

\* The handler whose catch tests for the code SQLITE_CONSTRAINT: the UNIQUE
\* violation is thrown on and answered 500.
saveReceiptWrongCode(db, files, tz, r, parsed) ==
  With(insertReceipt(db,
         [transaction_id |-> Null,
          vendor |-> parsed.vendor,
          receipt_date |-> parseDateToISO(parsed.date),
          total_cents |-> parseCents(parsed.total),
          total_text |-> parsed.total,
          image_path |-> r.path,
          image_sha256 |-> Some(sha256(r.image)),
          source |-> "upload",
          user_id |-> r.user]),
       LAMBDA ins :
       IF ins.threw
       THEN IF ins.code = "SQLITE_CONSTRAINT"
            THEN [status |-> 409, db |-> db, files |-> files \ {r.path}, matched |-> FALSE]
            ELSE [status |-> 500, db |-> db, files |-> files, matched |-> FALSE]
       ELSE With(matchReceipt(tz, ins.db.transactions, ins.db.receipts, ins.lastInsertRowid),
                 LAMBDA m :
                 [status |-> 200, db |-> [ins.db EXCEPT !.receipts = m.receipts],
                  files |-> files, matched |-> m.best # Null]))

\* From the insert to the response: the part of the handler after the OCR.
\* parsed is what analyzeReceiptImage returned; Null fields when it was not
\* called or threw.  A UNIQUE violation deletes the uploaded file (409).
saveReceipt(db, files, tz, r, parsed) ==
  With(insertReceipt(db,
         [transaction_id |-> Null,
          vendor |-> parsed.vendor,
          receipt_date |-> parseDateToISO(parsed.date),
          total_cents |-> parseCents(parsed.total),
          total_text |-> parsed.total,
          image_path |-> r.path,
          image_sha256 |-> Some(sha256(r.image)),
          source |-> "upload",
          user_id |-> r.user]),
       LAMBDA ins :
       IF ins.threw
       THEN IF ins.code = "SQLITE_CONSTRAINT_UNIQUE"
            THEN [status |-> 409, db |-> db, files |-> files \ {r.path}, matched |-> FALSE]
            ELSE [status |-> 500, db |-> db, files |-> files, matched |-> FALSE]
       ELSE With(matchReceipt(tz, ins.db.transactions, ins.db.receipts, ins.lastInsertRowid),
                 LAMBDA m :
                 [status |-> 200, db |-> [ins.db EXCEPT !.receipts = m.receipts],
                  files |-> files, matched |-> m.best # Null]))

\* renderToast(message, type) of the response: the warning of the 409, one
\* of the two success toasts of the 200; an error that is thrown on is
\* answered by the framework, without a toast.
uploadToast(out) ==
  IF out.status = 409 THEN [type |-> "warning", message |-> "Duplicate image skipped"]
  ELSE IF out.status # 200 THEN NoToast
  ELSE IF out.matched THEN [type |-> "success", message |-> "Receipt uploaded and matched"]
  ELSE [type |-> "success", message |-> "Receipt uploaded - unmatched"]

\* The handler's last stretch runs to the response without yielding.
respond(p, r, out) ==
  /\ req' = [req EXCEPT ![p] = [r EXCEPT !.pc = "done", !.status = out.status,
                                         !.matched = out.matched,
                                         !.toast = uploadToast(out)]]
  /\ uploads' = out.files
  /\ setDB(out.db)
  /\ seq' = out.db.seq

\* multer has written the file under a fresh uuid, here the request's own
\* number p (requests are numbered in the order they arrive); the handler
\* hashes it and, with an API key, awaits the OCR.  Without a key it runs on
\* to the response.
PostReceipts(p, u, img) ==
  LET path == <<"upload", p>>
      r == [pc |-> "ocr", user |-> u, image |-> img, path |-> path,
            status |-> 0, matched |-> FALSE, toast |-> NoToast]
  IN  /\ req[p].pc = "idle"
      /\ \A q \in Slots : q < p => req[q].pc # "idle"
      /\ IF env.key
         THEN /\ req' = [req EXCEPT ![p] = r]
              /\ uploads' = uploads \cup {path}
              /\ UNCHANGED <<statements, transactions, receipts, seq>>
         ELSE respond(p, r, saveReceipt(DB, uploads \cup {path}, env.tz, r, NoParse))
      /\ UNCHANGED <<inbox, env, ret, clicks>>

\* analyzeReceiptImage settles: it returns parsed, or it throws (threw).
OcrSettles(p, threw, parsed) ==
  /\ req[p].pc = "ocr"
  /\ respond(p, req[p],
             saveReceipt(DB, uploads, env.tz, req[p], IF threw THEN NoParse ELSE parsed))
  /\ UNCHANGED <<inbox, env, ret, clicks>>

----------------------------------------------------------------------------
(* server.js: POST /receipts/:id/assign and DELETE /receipts/:id *)

PostAssign(u, receiptId, txnId) ==
  LET found == receiptOfUser(DB, receiptId, u)
      upd == linkReceipt(DB, receiptId, txnId)
  IN  /\ IF found = {} THEN UNCHANGED <<statements, transactions, receipts>>
         ELSE setDB(upd.db)
      /\ UNCHANGED <<seq, uploads, req, inbox, env, ret, clicks>>

\* The handler of DELETE /receipts/:id: 404 for a receipt that is not the
\* user's; it unlinks, and when the receipt was an orphan it deletes the row
\* and the image.
deleteHandler(db, files, u, receiptId) ==
  LET found == receiptOfUser(db, receiptId, u)
      receipt == CHOOSE r \in found : TRUE
      unlinked == unlinkReceipt(db, receiptId)
  IN  IF found = {} THEN [db |-> db, files |-> files]
      ELSE IF receipt.transaction_id # Null THEN [db |-> unlinked, files |-> files]
      ELSE [db |-> deleteReceipt(unlinked, receiptId),
            files |-> IF receipt.image_path # <<>> THEN files \ {receipt.image_path}
                      ELSE files]

\* One DELETE /receipts/:id request, sent by either button and served.
DeleteReceipts(u, receiptId) ==
  With(deleteHandler(DB, uploads, u, receiptId), LAMBDA out :
       /\ setDB(out.db)
       /\ uploads' = out.files
       /\ UNCHANGED <<seq, req, inbox, env, ret, clicks>>)

\* The unlink button of a transaction row, which the page shows for every
\* receipt linked to a transaction of the user's table.  A click sends
\* DELETE /receipts/:id, served here; a double click (twice) sends the same
\* request a second time, which is then in flight.
UnlinkClicked(u, receiptId, twice) ==
  /\ \E r \in receipts :
       /\ r.id = receiptId
       /\ r.transaction_id # Null
       /\ getTransactionById(DB, Val(r.transaction_id), u) # {}
  /\ With(deleteHandler(DB, uploads, u, receiptId), LAMBDA out :
          /\ setDB(out.db)
          /\ uploads' = out.files)
  /\ clicks' = IF twice THEN clicks \cup {[user |-> u, id |-> receiptId]} ELSE clicks
  /\ UNCHANGED <<seq, req, inbox, env, ret>>

\* The second request of a double click is served.
UnlinkAgain(c) ==
  /\ c \in clicks
  /\ With(deleteHandler(DB, uploads, c.user, c.id), LAMBDA out :
          /\ setDB(out.db)
          /\ uploads' = out.files)
  /\ clicks' = clicks \ {c}
  /\ UNCHANGED <<seq, req, inbox, env, ret>>

----------------------------------------------------------------------------
(* server.js: PATCH /transactions/:id/verified *)

\* Toggles the verified mark of a transaction of the user; 404 for another.
PatchVerified(u, txnId) ==
  LET found == getTransactionById(DB, txnId, u)
      txn == CHOOSE t \in found : TRUE
  IN  /\ IF found = {} THEN UNCHANGED <<statements, transactions, receipts>>
         ELSE setDB(setVerified(DB, IF txn.verified = 1 THEN 0 ELSE 1, txnId))
      /\ UNCHANGED <<seq, uploads, req, inbox, env, ret, clicks>>

\* PATCH /receipts/:id: the edit form's vendor, date (an <input type="date">,
\* so ISO) and total are stored on the user's receipt; nothing is matched
\* again.
PatchReceipts(u, receiptId, body) ==
  LET receipt == {r \in receipts : r.id = receiptId /\ r.user_id = u}
      totalCents == parseCents(body.total)
  IN  /\ IF receipt = {} THEN UNCHANGED <<statements, transactions, receipts>>
         ELSE setDB(updateReceipt(DB,
                [id |-> receiptId,
                 vendor |-> body.vendor,
                 receipt_date |-> body.date,
                 total_cents |-> totalCents,
                 total_text |-> IF totalCents # Null THEN toFixed2(Val(totalCents))
                                ELSE body.total]))
      /\ UNCHANGED <<seq, uploads, req, inbox, env, ret, clicks>>

\* The store's setReceiptRequired statement, run for a transaction.  The
\* store exports it and server.js imports it; no route of server.js calls
\* it (the design names PUT /transactions/:id/exempt for it).
SetReceiptRequired(txnId, value) ==
  /\ \E t \in transactions : t.id = txnId /\ t.receipt_required # value
  /\ setDB(setReceiptRequired(DB, value, txnId))
  /\ UNCHANGED <<seq, uploads, req, inbox, env, ret, clicks>>

----------------------------------------------------------------------------
(* Deletes that the schema governs.  No route of server.js issues them: they
   are statements run on the database file itself. *)

DeleteStatement(id) ==
  /\ \E x \in statements : x.id = id
  /\ setDB(deleteStatement(DB, id))
  /\ UNCHANGED <<seq, uploads, req, inbox, env, ret, clicks>>

DeleteTransaction(id) ==
  /\ \E t \in transactions : t.id = id
  /\ setDB(deleteTransaction(DB, id))
  /\ UNCHANGED <<seq, uploads, req, inbox, env, ret, clicks>>

----------------------------------------------------------------------------
(* email-poller.js *)

\* The object handed to insertReceipt names no user_id.  A UNIQUE violation
\* is swallowed; any other error is thrown on to the caller.
insertAndMatch(db, tz, vendor, date, total, imagePath, imageSha256) ==
  With(insertReceipt(db,
         [transaction_id |-> Null,
          vendor |-> vendor,
          receipt_date |-> parseDateToISO(date),
          total_cents |-> parseCents(total),
          total_text |-> total,
          image_path |-> imagePath,
          image_sha256 |-> imageSha256,
          source |-> "email"]),
       LAMBDA ins :
       IF ins.threw
       THEN [threw |-> ins.code # "SQLITE_CONSTRAINT_UNIQUE", db |-> db]
       ELSE [threw |-> FALSE,
             db |-> [ins.db EXCEPT !.receipts =
                       matchReceipt(tz, ins.db.transactions, @, ins.lastInsertRowid).receipts]])

\* What processEmail leaves: the store, and whether it threw.
processed(m, out) ==
  /\ setDB(out.db)
  /\ seq' = out.db.seq
  /\ inbox' = IF out.threw THEN inbox ELSE inbox \ {m}

\* pollInbox's loop body for one unseen message: processEmail, then the
\* \Seen flag unless processEmail threw.  An image attachment is analysed
\* (threw: the OCR threw), saved and inserted inside a try/catch; a message
\* without one is parsed as text and inserted with no image.
ProcessEmail(m, threw, parsed) ==
  LET path == <<"email", m.id>>
  IN  /\ m \in inbox
      /\ IF m.kind = "image"
         THEN IF env.key /\ ~threw
              THEN /\ uploads' = uploads \cup {path}
                   /\ processed(m, [insertAndMatch(DB, env.tz, parsed.vendor, parsed.date,
                                                   parsed.total, path, Some(sha256(m.image)))
                                      EXCEPT !.threw = FALSE])
              ELSE /\ inbox' = inbox \ {m}
                   /\ UNCHANGED <<statements, transactions, receipts, seq, uploads>>
         ELSE /\ processed(m, insertAndMatch(DB, env.tz, m.parsed.vendor, m.parsed.date,
                                             m.parsed.total, <<>>, Null))
              /\ UNCHANGED uploads
      /\ UNCHANGED <<req, env, ret, clicks>>

----------------------------------------------------------------------------
(* The requests the environment sends *)

D(mm, dd) == <<"/", mm, dd, 2024>>
Header == Line(<<"Date">>, <<"Description">>, <<"Debit">>)

rowChipotle == Line(D(11, 4), <<"CHIPOTLE", "MEX", "GR">>, <<44, 4>>)
rowDunkin == Line(D(11, 4), <<"DUNKIN", "#344563">>, <<44, 4>>)
rowSubway == Line(D(11, 4), <<"SUBWAY", "22">>, <<44, 4>>)
rowNear == Line(D(11, 4), <<"CHIPOTLE", "MEX", "GR">>, <<44, 3>>)
rowNoDate == Line(Null, <<"CHIPOTLE", "MEX", "GR">>, <<44, 4>>)
rowNoDebit == Line(D(11, 4), <<"PAYMENT">>, Null)

rowDunkinFeb == Line(D(2, 18), <<"DUNKIN", "#344563">>, <<6, 39>>)
rowChipotleFeb == Line(D(2, 19), <<"CHIPOTLE", "MEX", "GR">>, <<44, 4>>)

rowSubwayNov3 == Line(D(11, 3), <<"SUBWAY", "22">>, <<44, 4>>)
FileOne == <<Header, rowChipotle>>
FileThree == <<Header, rowChipotle, rowDunkin, rowSubway>>
FileTwice == <<Header, rowChipotle, rowChipotle>>
FileBad == <<Header, rowChipotle, rowNoDate>>
FileSkip == <<Header, BlankLine, rowNoDebit, rowNear>>
FileEmpty == <<Header>>

FileScenario == <<Header, rowDunkinFeb, rowChipotleFeb>>

FileRank == <<Header, rowChipotle, rowDunkin, rowSubwayNov3>>

FilePair == <<Header, rowChipotle, rowDunkin>>

FileCredits == <<Header, rowNoDebit>>

FileBlank == <<Header, BlankLine>>

Files == {FileOne, FileThree, FileTwice, FileBad, FileSkip, FileEmpty, FileBlank}

Images == {"img1", "img2"}

Parsed(vendor, date, total) == [vendor |-> vendor, date |-> date, total |-> total]

ocrChipotle == Parsed(<<"Chipotle">>, D(11, 4), <<44, 4>>)
ocrTwoDaysBefore == Parsed(<<"Chipotle">>, D(11, 2), <<44, 4>>)
ocrThreeDaysBefore == Parsed(<<"Chipotle">>, D(11, 1), <<44, 4>>)

ocrScenario == Parsed(<<"Chipotle">>, D(2, 19), <<44, 4>>)
ocrNoDate == Parsed(<<"Chipotle">>, Null, <<44, 4>>)
ocrNoTotal == Parsed(<<"Chipotle">>, D(2, 19), Null)

ocrNoVendor == Parsed(Null, D(11, 4), <<44, 4>>)
ocrNoVendorBefore == Parsed(Null, D(11, 2), <<44, 4>>)

OcrResults == {ocrChipotle, ocrTwoDaysBefore, ocrThreeDaysBefore, NoParse}

Messages ==
  { [id |-> 1, kind |-> "image", image |-> "img1", parsed |-> NoParse],
    [id |-> 2, kind |-> "text", image |-> "", parsed |-> ocrChipotle] }

\* Bodies of the edit form: a corrected receipt, and the form left empty.
editDunkin == Parsed(<<"Dunkin">>, <<"-", 2024, 11, 4>>, <<44, 4>>)
Edits == {editDunkin, NoParse}

TimeZones == {"UTC", "America/New_York"}

----------------------------------------------------------------------------
(* Specification *)

\* The state after construction: an empty database, no request in flight,
\* the messages waiting in the mailbox, the process's TZ and MISTRAL_API_KEY.
InitWith(zones, keys, messages) ==
  /\ statements = {}
  /\ transactions = {}
  /\ receipts = {}
  /\ seq = [statements |-> 0, transactions |-> 0, receipts |-> 0]
  /\ uploads = {}
  /\ req = [p \in Slots |-> Idle]
  /\ inbox = messages
  /\ env \in [tz : zones, key : keys]
  /\ ret = [reason |-> "none", orphans |-> {}]
  /\ clicks = {}

NextWith(users, files, slots, images, results) ==
  \/ \E u \in users, f \in files : PostStatements(u, f)
  \/ \E p \in slots, u \in users, img \in images : PostReceipts(p, u, img)
  \/ \E p \in Slots, threw \in BOOLEAN, parsed \in results : OcrSettles(p, threw, parsed)
  \/ \E u \in users, r \in receipts, t \in transactions : PostAssign(u, r.id, t.id)
  \/ \E u \in users, r \in receipts : DeleteReceipts(u, r.id)
  \/ \E m \in inbox, threw \in BOOLEAN, parsed \in results : ProcessEmail(m, threw, parsed)

textMessage == [id |-> 2, kind |-> "text", image |-> "", parsed |-> ocrChipotle]

\* The import workload: both users, every file, one upload.
Init == InitWith({"UTC"}, {TRUE}, {textMessage})
Next == NextWith(Users, Files, {1}, {"img1"}, {ocrChipotle})
Spec == Init /\ [][Next]_vars

\* The upload workload: both users, both images, with and without an API
\* key, an image and a text message in the mailbox.
InitUpload == InitWith({"UTC"}, BOOLEAN, Messages)
NextUpload == NextWith(Users, {FileOne}, Slots, Images, {ocrChipotle})
SpecUpload == InitUpload /\ [][NextUpload]_vars

\* The matching workload: one user, files with several candidates.
InitMatch == InitWith({"UTC"}, {TRUE}, {textMessage})
NextMatch == NextWith({1}, {FileThree, FileSkip}, Slots, Images, {ocrChipotle, NoParse})
SpecMatch == InitMatch /\ [][NextMatch]_vars

\* The date workload: one user, one transaction, receipts of several days,
\* both time zones.
InitWindow == InitWith(TimeZones, {TRUE}, {textMessage})
NextWindow == NextWith({1}, {FileOne}, Slots, Images, OcrResults)
SpecWindow == InitWindow /\ [][NextWindow]_vars

\* The ledger workload: one user, the two-row statement of February,
\* receipts with and without date and amount, and the verified mark.
InitLedger == InitWith({"UTC"}, {TRUE}, {textMessage})
NextLedger ==
  \/ NextWith({1}, {FileScenario}, Slots, Images, {ocrScenario, ocrNoDate, ocrNoTotal})
  \/ \E u \in Users, t \in transactions : PatchVerified(u, t.id)
SpecLedger == InitLedger /\ [][NextLedger]_vars

\* The summary workload: both users, a statement each, several receipts on
\* one transaction, and the verified mark.
InitStats == InitWith({"UTC"}, {TRUE}, {textMessage})
NextStats ==
  \/ \E u \in Users : PostStatements(u, IF u = 1 THEN FileOne ELSE FileSkip)
  \/ \E p \in Slots, img \in Images : PostReceipts(p, 1, img)
  \/ \E p \in Slots : OcrSettles(p, FALSE, ocrChipotle)
  \/ \E r \in receipts, t \in transactions : PostAssign(1, r.id, t.id)
  \/ \E r \in receipts : DeleteReceipts(1, r.id)
  \/ \E u \in Users, t \in transactions : PatchVerified(u, t.id)
SpecStats == InitStats /\ [][NextStats]_vars

\* The unlink workload: one user, one transaction, receipts on it, the
\* buttons of the page.
InitUnlink == InitWith({"UTC"}, {TRUE}, {textMessage})
NextUnlink ==
  \/ NextWith({1}, {FileOne}, Slots, Images, {ocrChipotle})
  \/ \E u \in Users, r \in receipts, twice \in BOOLEAN : UnlinkClicked(u, r.id, twice)
  \/ \E c \in clicks : UnlinkAgain(c)
SpecUnlink == InitUnlink /\ [][NextUnlink]_vars

\* Every request that the pages of one user and of a second user can send.
InitAudit == InitWith({"UTC"}, {TRUE}, {textMessage})
NextAudit ==
  \/ NextWith({1}, {FileOne, FileSkip}, Slots, {"img1"}, {ocrChipotle})
  \/ \E u \in Users, t \in transactions : PatchVerified(u, t.id)
  \/ \E u \in Users, r \in receipts, body \in Edits : PatchReceipts(u, r.id, body)
SpecAudit == InitAudit /\ [][NextAudit]_vars

\* Imports, uploads and assignments (to any id, issued or not) of one user,
\* with deletes of statements and transactions on the database.
InitSchema == InitWith({"UTC"}, {TRUE}, {textMessage})
NextSchema ==
  \/ \E f \in {FileOne, FileSkip} : PostStatements(1, f)
  \/ \E p \in Slots, img \in Images : PostReceipts(p, 1, img)
  \/ \E p \in Slots : OcrSettles(p, FALSE, ocrChipotle)
  \/ \E r \in receipts, id \in 1..(seq.transactions + 1) : PostAssign(1, r.id, id)
  \/ \E x \in statements : DeleteStatement(x.id)
  \/ \E t \in transactions : DeleteTransaction(t.id)
SpecSchema == InitSchema /\ [][NextSchema]_vars

\* One statement of three purchases of one amount on two days, and receipts
\* with and without a vendor, on the days and two days before.
InitRank == InitWith(TimeZones, {TRUE}, {textMessage})
NextRank ==
  \/ PostStatements(1, FileRank)
  \/ \E p \in Slots, img \in Images : PostReceipts(p, 1, img)
  \/ \E p \in Slots, parsed \in {ocrTwoDaysBefore, ocrNoVendor, ocrNoVendorBefore} :
       OcrSettles(p, FALSE, parsed)
  \/ \E r \in receipts : DeleteReceipts(1, r.id)
SpecRank == InitRank /\ [][NextRank]_vars

\* One user with one purchase, receipts for it, and the exemption of
\* transactions.
InitExempt == InitWith({"UTC"}, {TRUE}, {textMessage})
NextExempt ==
  \/ \E f \in {FileOne, FileSkip} : PostStatements(1, f)
  \/ \E p \in Slots, img \in Images : PostReceipts(p, 1, img)
  \/ \E p \in Slots : OcrSettles(p, FALSE, ocrChipotle)
  \/ \E r \in receipts, t \in transactions : PostAssign(1, r.id, t.id)
  \/ \E t \in transactions, value \in {0, 1} : SetReceiptRequired(t.id, value)
SpecExempt == InitExempt /\ [][NextExempt]_vars

\* Two purchases of one amount on one day, and receipts with and without a
\* vendor that wait for them as orphans or arrive after them.
InitSweep == InitWith({"UTC"}, {TRUE}, {textMessage})
NextSweep == NextWith({1}, {FilePair}, Slots, Images, {ocrChipotle, ocrNoVendor})
SpecSweep == InitSweep /\ [][NextSweep]_vars

\* Imports of files with rows that are counted as imported and as skipped,
\* one of them with no row that has an amount.
InitImport == InitWith({"UTC"}, {TRUE}, {textMessage})
NextImport == NextWith(Users, {FileOne, FileTwice, FileSkip, FileCredits}, {1}, {"img1"}, {ocrChipotle})
SpecImport == InitImport /\ [][NextImport]_vars

\* Uploads alone, so that two requests with the same bytes are disturbed by
\* nothing but each other.
NextRace ==
  \/ \E p \in Slots, u \in Users, img \in Images : PostReceipts(p, u, img)
  \/ \E p \in Slots, threw \in BOOLEAN, parsed \in OcrResults : OcrSettles(p, threw, parsed)
SpecRace == InitWith(TimeZones, BOOLEAN, Messages) /\ [][NextRace]_vars

----------------------------------------------------------------------------
(* Import *)

stored(u, f) == \E s \in statements : s.user_id = u /\ s.file_sha256 = sha256(f)

\* Only importStatement writes ret: a step that changes ret is a call of it
\* by ret'.user with the bytes of fingerprint ret'.file_sha256.
importOf(u, f) == ret' # ret /\ ret'.user = u /\ ret'.file_sha256 = sha256(f)

\* C1 (idempotent import): a call of importStatement with bytes that user u
\* has already imported answers imported = false, reason "duplicate", reports
\* no imported row, and leaves every statement, transaction and receipt
\* (hence every link) as it was.
C1_IdempotentImport ==
  [][\A u \in Users, f \in Files :
       stored(u, f) /\ importOf(u, f) =>
         /\ ret'.imported = FALSE
         /\ ret'.reason = "duplicate"
         /\ ret'.rowsImported = Null
         /\ UNCHANGED store]_vars

\* A duplicate was answered while an orphan receipt waits that the sweep
\* would have linked.
C1_Witness ==
  /\ ret.reason = "duplicate"
  /\ \E r \in receipts :
       /\ r.id \in ret.orphans
       /\ r.transaction_id = Null
       /\ matchReceipt(env.tz, transactions, receipts, r.id).best # Null


owner(t) == (CHOOSE s \in statements : s.id = t.statement_id).user_id

\* C2 (row-level idempotence): no row is inserted a second time for a user:
\* two transactions of different statements of one user never carry the
\* same row fingerprint.
C2_RowLevelIdempotence ==
  \A t1 \in transactions, t2 \in transactions :
    t1.statement_id # t2.statement_id /\ owner(t1) = owner(t2)
      => t1.raw_row_hash # t2.raw_row_hash

\* The data rows of file f that have an amount, by the number the import
\* gives them.
rowsWithAmount(f) ==
  {i \in 1..(Len(nonBlankLines(f)) - 1) : nonBlankLines(f)[i + 1].debit # Null}

\* C3 (no row lost): every data row with an amount of an imported file is
\* exactly one transaction of its statement, two rows of identical text
\* included.
C3_NoRowLost ==
  \A s \in statements, f \in Files :
    s.file_sha256 = sha256(f) =>
      \A i \in rowsWithAmount(f) :
        Cardinality({t \in transactions :
                       t.statement_id = s.id /\ t.row_number = i}) = 1

\* C4 (atomic import): a call of importStatement either stores the new
\* statement together with every row fingerprint of the file that has an
\* amount, as many transactions as it reports, or leaves statements,
\* transactions and receipts as they were; it answers "duplicate" only for
\* bytes the user has stored, so never after an import of them that threw.
C4_AtomicImport ==
  [][\A u \in Users, f \in Files :
       importOf(u, f) =>
         /\ ret'.reason = "duplicate" => stored(u, f)
         /\ ret'.threw => ~stored(u, f)'
         /\ IF ret'.imported
            THEN /\ \E s \in statements' \ statements :
                      /\ s.id = Val(ret'.statementId)
                      /\ s.user_id = u
                      /\ s.file_sha256 = sha256(f)
                 /\ \A i \in rowsWithAmount(f) :
                      \E t \in transactions' \ transactions :
                        /\ t.statement_id = Val(ret'.statementId)
                        /\ t.raw_row_hash = sha256(nonBlankLines(f)[i + 1])
                 /\ Cardinality(transactions' \ transactions) = Val(ret'.rowsImported)
                 /\ \A t \in transactions' \ transactions :
                      t.statement_id = Val(ret'.statementId)
            ELSE UNCHANGED store]_vars

\* An import threw after its first row had been inserted, and neither the
\* statement nor the row is stored.
C4_Witness ==
  /\ ret.reason = ""
  /\ ret.threw
  /\ statements = {}
  /\ transactions = {}


----------------------------------------------------------------------------
(* Ingestion guard *)

withFingerprint(img) == {r \in receipts : r.image_sha256 = Some(sha256(img))}

\* C5 (ingestion guard): no two receipts of one user carry the same image
\* fingerprint; receipts without a fingerprint are not restricted.
C5_IngestionGuard ==
  \A r1 \in receipts, r2 \in receipts :
    r1.id # r2.id /\ r1.user_id = r2.user_id /\ r1.image_sha256 # Null
      => r1.image_sha256 # r2.image_sha256

\* An upload was refused as a duplicate of a receipt that its user holds.
C5_Witness ==
  \E p \in Slots, r \in receipts :
    /\ req[p].status = 409
    /\ r.user_id = req[p].user
    /\ r.image_sha256 = Some(sha256(req[p].image))

answeredAlike(p) == {q \in Slots : req[q].pc = "done" /\ req[q].image = req[p].image}

\* C6 (ingestion guard atomicity): of the upload requests with identical
\* bytes that have been answered, however their steps interleaved, exactly
\* one was stored (200), every other one got the duplicate signal (409), and
\* exactly one receipt carries the fingerprint.
C6_GuardAtomicity ==
  \A p \in Slots :
    req[p].pc = "done" =>
      /\ Cardinality({q \in answeredAlike(p) : req[q].status = 200}) = 1
      /\ \A q \in answeredAlike(p) : req[q].status \in {200, 409}
      /\ Cardinality(withFingerprint(req[p].image)) = 1

\* Two requests with the same bytes overlapped: the first to arrive was
\* still waiting for its OCR when the second was stored, and got the signal.
C6_Witness ==
  /\ req[1].pc = "done" /\ req[1].status = 409
  /\ req[2].pc = "done" /\ req[2].status = 200
  /\ req[1].image = req[2].image


----------------------------------------------------------------------------
(* Matching *)

\* Days between two dates of the calendar, whatever the time zone.
calendarDays(a, b) == Abs((DaysBefore(a[3]) + a[4]) - (DaysBefore(b[3]) + b[4]))

\* t has the amount of receipt r and lies within two days of its date.
viable(t, r) ==
  /\ t.receipt_required = 1
  /\ Some(t.amount_cents) = r.total_cents
  /\ IsIsoDate(r.receipt_date)
  /\ IsIsoDate(t.posted_date)
  /\ calendarDays(t.posted_date, r.receipt_date) <= 2

\* POST /receipts stores a receipt and runs matchReceipt on it in the step
\* that answers 200; the receipt is the one the step adds.
uploadStored == \E p \in Slots : req[p].pc # "done" /\ req'[p].pc = "done" /\ req'[p].status = 200

\* The transactions without a receipt before the step that are viable for r.
tier1(r) == {t \in transactions : ~hasReceipt(receipts, t) /\ viable(t, r)}

\* C7 (tier precedence): matchReceipt does not link the receipt to a
\* transaction that already has a receipt while a transaction without one is
\* viable for it.
C7_TierPrecedence ==
  [][uploadStored =>
       \A r \in receipts' \ receipts, t \in transactions :
         r.transaction_id = Some(t.id) /\ hasReceipt(receipts, t) => tier1(r) = {}]_vars

\* a ranks before b for receipt r: more vendor tokens, then the nearer date.
ranksBefore(r, a, b) ==
  \/ tokenOverlap(r.vendor, a.description) > tokenOverlap(r.vendor, b.description)
  \/ /\ tokenOverlap(r.vendor, a.description) = tokenOverlap(r.vendor, b.description)
     /\ calendarDays(a.posted_date, r.receipt_date) < calendarDays(b.posted_date, r.receipt_date)

\* The candidates no other candidate ranks before.
topOf(r, cands) == {t \in cands : \A u \in cands : ~ranksBefore(r, u, t)}

\* C8 (ambiguity yields no match): when two or more candidates tie for best,
\* the receipt stays an orphan.
C8_AmbiguityNoMatch ==
  [][uploadStored =>
       \A r \in receipts' \ receipts :
         Cardinality(topOf(r, tier1(r))) >= 2 => r.transaction_id = Null]_vars

\* A step in which matchReceipt may run: an upload is answered or a
\* statement is imported.  (POST /receipts/:id/assign links by hand.)
matchStep == req' # req \/ statements' # statements

linkedTo(r, t) == r.transaction_id = Some(t.id)

\* C9 (integer-exact matching): every link matchReceipt makes joins a
\* receipt and a transaction of exactly the same amount in cents.
C9_IntegerExact ==
  [][matchStep =>
       \A r \in receipts' \ receipts, t \in transactions' :
         linkedTo(r, t) => Some(t.amount_cents) = r.total_cents]_vars

\* matchReceipt linked an upload of 4404 while a transaction of 4403 of the
\* same day is in the ledger, without a receipt.
C9_Witness ==
  \E p \in Slots, r \in receipts, t \in transactions :
    /\ req[p].pc = "done" /\ req[p].matched
    /\ r.image_path = req[p].path
    /\ r.total_cents = Some(4404)
    /\ r.transaction_id # Null
    /\ t.amount_cents = 4403
    /\ t.posted_date = r.receipt_date
    /\ ~hasReceipt(receipts, t)

\* C10 (date window boundary): a stored receipt with exactly one viable
\* transaction in the ledger (same amount, at most two days away) is linked
\* to it, and no link is made over more than two days.
C10_DateWindow ==
  [][uploadStored =>
       \A r \in receipts' \ receipts :
         /\ \A t \in transactions :
              {x \in transactions : viable(x, r)} = {t} => linkedTo(r, t)
         /\ \A t \in transactions :
              linkedTo(r, t) => calendarDays(t.posted_date, r.receipt_date) <= 2]_vars

----------------------------------------------------------------------------
(* Preconditions and frame of matching *)

\* The ids matchReceipt has nothing to match on: the receipts without an
\* amount or without a date, and the next id, which no receipt has yet.
unmatchable ==
  {r.id : r \in {x \in receipts : x.total_cents = Null \/ x.receipt_date = Null}}
    \cup {seq.receipts + 1}

\* C11 (matching precondition): matchReceipt on a receipt without amount or
\* without date, or on an id that no receipt has, returns null and leaves
\* every receipt as it is, whatever transactions the ledger holds.
C11_NothingToMatchOn ==
  \A id \in unmatchable :
    matchReceipt(env.tz, transactions, receipts, id) = [best |-> Null, receipts |-> receipts]

\* A receipt with an amount but no date is an orphan while a transaction of
\* that amount has no receipt, and a receipt with a date but no amount too.
C11_Witness ==
  /\ \E r \in receipts, t \in transactions :
       /\ r.receipt_date = Null /\ r.total_cents = Some(t.amount_cents)
       /\ r.transaction_id = Null /\ ~hasReceipt(receipts, t)
  /\ \E r \in receipts : r.total_cents = Null /\ r.receipt_date # Null

\* A step that makes or moves a link: some receipt refers to a transaction
\* it did not refer to before.
linkStep == \E r \in receipts' : r.transaction_id # Null /\ r \notin receipts

\* C12 (linking leaves the transaction alone): a step that links a receipt,
\* by matchReceipt, by the sweep of an import or by manual assign, leaves
\* every transaction of the ledger with all its fields.
C12_LinkKeepsTransaction ==
  [][linkStep => \A t \in transactions : t \in transactions']_vars

\* A receipt was assigned by hand to a transaction of another amount, and a
\* transaction that carries a receipt has been marked verified and another
\* has not.
C12_Witness ==
  /\ \E r \in receipts, t \in transactions :
       linkedTo(r, t) /\ r.total_cents # Some(t.amount_cents) /\ t.verified = 0
  /\ \E r \in receipts, t \in transactions : linkedTo(r, t) /\ t.verified = 1

----------------------------------------------------------------------------
(* Scopes *)

\* C13 (scope isolation): a receipt that refers to a transaction belongs to
\* the user who owns the statement of that transaction.
C13_ScopeIsolation ==
  \A r \in receipts, t \in transactions : linkedTo(r, t) => r.user_id = owner(t)

\* A file that importStatement can read to its end: a data line after the
\* header, and a date on every line that has an amount.
readable(f) ==
  /\ Len(nonBlankLines(f)) >= 2
  /\ \A i \in rowsWithAmount(f) : nonBlankLines(f)[i + 1].date # Null

\* C14 (statement fingerprint unique per scope): no user has two statements
\* of one fingerprint, and a readable file that the user has not imported is
\* imported (imported = true) whoever else has imported the same bytes.
C14_FingerprintPerScope ==
  [][/\ \A s1 \in statements', s2 \in statements' :
          s1.user_id = s2.user_id /\ s1.file_sha256 = s2.file_sha256 => s1.id = s2.id
     /\ \A u \in Users, f \in Files :
          importOf(u, f) /\ ~stored(u, f) /\ readable(f) => ret'.imported = TRUE]_vars

----------------------------------------------------------------------------
(* Unlink and delete *)

\* The step serves DELETE /receipts/:id of user u for receipt r.
deleteServed(u, r) ==
  \/ DeleteReceipts(u, r.id)
  \/ \E twice \in BOOLEAN : UnlinkClicked(u, r.id, twice)
  \/ UnlinkAgain([user |-> u, id |-> r.id])

\* C15 (unlink is non-destructive): when DELETE /receipts/:id is served for
\* a receipt that is linked, the receipt is afterwards among the orphans of
\* its user with every other field as before, no other receipt changes, and
\* no image is removed.
C15_UnlinkKeepsReceipt ==
  [][\A r \in receipts :
       r.transaction_id # Null /\ deleteServed(r.user_id, r) =>
         /\ [r EXCEPT !.transaction_id = Null] \in getOrphanReceipts(DB', r.user_id)
         /\ receipts' \ {[r EXCEPT !.transaction_id = Null]} = receipts \ {r}
         /\ uploads' = uploads]_vars

\* A receipt that was matched to a transaction is an orphan again, with its
\* image, and its transaction has no receipt.
C15_Witness ==
  \E p \in Slots, r \in receipts :
    /\ req[p].pc = "done" /\ req[p].matched
    /\ r.image_path = req[p].path
    /\ r.transaction_id = Null
    /\ r.image_path \in uploads
    /\ \A t \in transactions : ~hasReceipt(receipts, t)

\* C16 (no delete through unlink): a request sent by an unlink button, the
\* first of a click or the second of a double click, removes no receipt and
\* no image.
C16_UnlinkNeverDeletes ==
  [][\A r \in receipts :
       (\E u \in Users :
          \/ \E twice \in BOOLEAN : UnlinkClicked(u, r.id, twice)
          \/ UnlinkAgain([user |-> u, id |-> r.id]))
         => /\ \E x \in receipts' : x.id = r.id
            /\ uploads' = uploads]_vars

----------------------------------------------------------------------------
(* Summary *)

\* The ids of the transactions that some receipt refers to.
referenced == {Val(r.transaction_id) : r \in {x \in receipts : x.transaction_id # Null}}

\* C17 (summary counts): for every user, withReceipts is the number of the
\* user's transactions that some receipt refers to, each counted once; total,
\* exempt and verified count the user's transactions, those not requiring a
\* receipt and those marked verified; missing is total - withReceipts - exempt.
C17_StatsCounts ==
  \A u \in Users :
    LET mine == {t \in transactions : owner(t) = u}
        stats == getStats(DB, u)
    IN  /\ stats.total = Cardinality(mine)
        /\ stats.withReceipts = Cardinality({t.id : t \in mine} \cap referenced)
        /\ stats.exempt = Cardinality({t \in mine : t.receipt_required = 0})
        /\ stats.verified = Cardinality({t \in mine : t.verified = 1})
        /\ stats.missing = stats.total - stats.withReceipts - stats.exempt

\* A transaction of user 1 carries two receipts and is counted once, it is
\* marked verified, and user 2 has a transaction of their own.
C17_Witness ==
  /\ \E r1 \in receipts, r2 \in receipts, t \in transactions :
       /\ r1.id # r2.id /\ linkedTo(r1, t) /\ linkedTo(r2, t)
       /\ owner(t) = 1 /\ t.verified = 1
  /\ getStats(DB, 1) = [total |-> 1, withReceipts |-> 1, exempt |-> 0, verified |-> 1,
                         missing |-> 0]
  /\ getStats(DB, 2).total = 1

\* The ledger holds the statement of February and nothing else: DUNKIN
\* #344563 of 2024-02-18 for 639 and CHIPOTLE MEX GR of 2024-02-19 for 4404,
\* no receipt.
scenarioLedger ==
  /\ receipts = {}
  /\ Cardinality(transactions) = 2
  /\ \E t \in transactions :
       /\ t.posted_date = <<"-", 2024, 2, 18>> /\ t.amount_cents = 639
       /\ t.description = <<"DUNKIN", "#344563">>
  /\ \E t \in transactions :
       /\ t.posted_date = <<"-", 2024, 2, 19>> /\ t.amount_cents = 4404
       /\ t.description = <<"CHIPOTLE", "MEX", "GR">>

\* C18 (scenario): on that ledger, the upload of a receipt that reads
\* Chipotle, 02/19/2024, 44.04 is linked to the CHIPOTLE transaction and to
\* no other, and getStats then reports withReceipts = 1 and missing = 1.
C18_Scenario ==
  [][scenarioLedger /\ uploadStored =>
       \A r \in receipts' :
         r.vendor = <<"Chipotle">> /\ r.total_text = <<44, 4>> /\ r.receipt_date # Null =>
           /\ \E t \in transactions : t.amount_cents = 4404 /\ linkedTo(r, t)
           /\ getStats(DB', r.user_id).withReceipts = 1
           /\ getStats(DB', r.user_id).missing = 1]_vars

\* The scenario has run: the only receipt reads 2024-02-19 and 4404 and is
\* on the CHIPOTLE transaction; the DUNKIN transaction has none.
C18_Witness ==
  /\ Cardinality(receipts) = 1
  /\ \E r \in receipts, t \in transactions :
       /\ r.receipt_date = <<"-", 2024, 2, 19>> /\ r.total_cents = Some(4404)
       /\ linkedTo(r, t) /\ t.description = <<"CHIPOTLE", "MEX", "GR">>
       /\ \E p \in Slots : req[p].pc = "done" /\ req[p].matched /\ req[p].path = r.image_path
  /\ \E t \in transactions : t.amount_cents = 639 /\ ~hasReceipt(receipts, t)
  /\ getStats(DB, 1).withReceipts = 1
  /\ getStats(DB, 1).missing = 1

----------------------------------------------------------------------------
(* Rows that are not imported *)

\* No line after the first holds characters.
noDataRow(f) == \A i \in 2..Len(f) : ~f[i].chars

\* C19 (empty import): importing a file without a data row answers
\* imported = false, reason "empty", and stores nothing, the fingerprint
\* included, so that the same call is never answered "duplicate".
C19_EmptyImport ==
  [][\A u \in Users, f \in Files :
       importOf(u, f) /\ noDataRow(f) =>
         /\ ret'.imported = FALSE
         /\ ret'.reason = "empty"
         /\ ~ret'.threw
         /\ UNCHANGED <<store, seq>>
         /\ \A s \in statements' : s.file_sha256 # sha256(f)]_vars

\* A file of a header and a blank line was answered "empty" while the
\* ledger holds other statements and no statement has its fingerprint.
C19_Witness ==
  /\ ret.reason = "empty"
  /\ ret.file_sha256 = sha256(FileBlank)
  /\ statements # {}
  /\ \A s \in statements : s.file_sha256 # sha256(FileBlank)

\* The data rows of file f without an amount, by the number the import
\* gives them.
rowsWithoutAmount(f) ==
  {i \in 1..(Len(nonBlankLines(f)) - 1) : nonBlankLines(f)[i + 1].debit = Null}

\* C20 (a row without amount is skipped): the import of a readable file
\* whose bytes no statement carries returns imported = true although rows
\* have no amount; those rows are counted in rowsSkipped and have no
\* transaction, and every row with an amount has one in the new statement.
C20_NoAmountSkipped ==
  [][\A u \in Users, f \in Files :
       /\ importOf(u, f)
       /\ rowsWithoutAmount(f) # {}
       /\ readable(f)
       /\ \A s \in statements : s.file_sha256 # sha256(f)
       => /\ ret'.imported = TRUE
          /\ Val(ret'.rowsSkipped) >= Cardinality(rowsWithoutAmount(f))
          /\ Val(ret'.rowsImported) + Val(ret'.rowsSkipped) = Len(nonBlankLines(f)) - 1
          /\ \A i \in rowsWithoutAmount(f) :
               \A t \in transactions' :
                 t.raw_row_hash # sha256(nonBlankLines(f)[i + 1])
          /\ \A i \in rowsWithAmount(f) :
               \E t \in transactions' \ transactions :
                 /\ t.statement_id = Val(ret'.statementId)
                 /\ t.raw_row_hash = sha256(nonBlankLines(f)[i + 1])]_vars

\* The file with a payment line and a purchase was imported: one row
\* skipped, one imported, and the purchase alone is in the ledger.
C20_Witness ==
  /\ ret.reason = ""
  /\ ret.imported = TRUE
  /\ ret.file_sha256 = sha256(FileSkip)
  /\ ret.rowsSkipped = Some(1)
  /\ ret.rowsImported = Some(1)
  /\ \E t \in transactions :
       t.statement_id = Val(ret.statementId) /\ t.raw_row_hash = sha256(rowNear)
  /\ \A t \in transactions : t.raw_row_hash # sha256(rowNoDebit)

----------------------------------------------------------------------------
\* C21: malformed row data never makes importStatement raise: in an import
\* of a fresh file with data lines nothing is thrown, the import is
\* reported, every data line is counted as imported or skipped, and every
\* line with a date and an amount is committed.
wellFormedRows(f) ==
  {i \in rowsWithAmount(f) : nonBlankLines(f)[i + 1].date # Null}

C21_MalformedRowSkipped ==
  [][\A u \in Users, f \in Files :
       /\ importOf(u, f)
       /\ Len(nonBlankLines(f)) >= 2
       /\ \A s \in statements : s.file_sha256 # sha256(f)
       => /\ ~ret'.threw
          /\ ret'.imported = TRUE
          /\ \A i \in wellFormedRows(f) :
               \E t \in transactions' \ transactions :
                 t.raw_row_hash = sha256(nonBlankLines(f)[i + 1])]_vars

----------------------------------------------------------------------------
\* C22 (reverse sweep): an import that is reported as imported has committed
\* its rows and then matched the orphans of the importing user, so an orphan
\* for which exactly one transaction is viable, a newly imported one, is
\* linked to it when the import returns; an import that is not reported as
\* imported changes no receipt.
C22_ReverseSweep ==
  [][\A u \in Users, f \in Files :
       importOf(u, f) =>
         IF ret'.imported
         THEN \A r \in receipts, t \in transactions' \ transactions :
                /\ r.user_id = u
                /\ r.transaction_id = Null
                /\ {x \in transactions' : viable(x, r)} = {t}
                => \E r2 \in receipts' : r2.id = r.id /\ r2.transaction_id = Some(t.id)
         ELSE receipts' = receipts]_vars

----------------------------------------------------------------------------
(* Content Guard *)

\* The receipts of r's user with r's extracted date and amount.
sameContent(rs, r) ==
  {x \in rs : /\ x.id # r.id
              /\ x.user_id = r.user_id
              /\ r.receipt_date # Null /\ x.receipt_date = r.receipt_date
              /\ r.total_cents # Null /\ x.total_cents = r.total_cents}

\* The request of slot p is answered in this step.
answered(p) == req[p].pc # "done" /\ req'[p].pc = "done"

\* C23 (the Content Guard does not block): an upload whose image bytes no
\* stored receipt has is stored whatever its extracted date and amount are:
\* the answer is 200, the new receipt exists, and every receipt stored
\* before still exists.
C23_ContentGuardDoesNotBlock ==
  [][\A p \in Slots :
       /\ answered(p)
       /\ \A r \in receipts : r.image_sha256 # Some(sha256(req'[p].image))
       => /\ req'[p].status = 200
          /\ \E n \in receipts' \ receipts :
               /\ n.user_id = req'[p].user
               /\ n.image_sha256 = Some(sha256(req'[p].image))
               /\ n.image_path = req'[p].path
          /\ \A r \in receipts : \E r2 \in receipts' : r2.id = r.id]_vars

\* Two receipts of one user with different image bytes and the same
\* extracted date and amount are stored, the later one by an upload that
\* was answered 200.
C23_Witness ==
  \E p \in Slots, n \in receipts :
    /\ req[p].pc = "done" /\ req[p].status = 200
    /\ n.image_path = req[p].path
    /\ \E x \in sameContent(receipts, n) :
         x.id < n.id /\ x.image_sha256 # n.image_sha256

\* C24 (Content Guard advisory): when an upload stores a receipt that has
\* the extracted date and amount of another receipt of its user, the
\* response carries a warning.
C24_ContentGuardAdvisory ==
  [][\A p \in Slots :
       answered(p) /\ req'[p].status = 200 =>
         \A n \in receipts' \ receipts :
           sameContent(receipts', n) # {} => req'[p].toast.type = "warning"]_vars

----------------------------------------------------------------------------
(* Ingestion by upload and by email *)

\* The stored receipts with the bytes img.
holders(img) == {r \in receipts : r.image_sha256 = Some(sha256(img))}

\* The image messages that the step marks as seen.
imagesSeen == {m \in inbox \ inbox' : m.kind = "image"}

\* C25 (a rejected attempt leaves no bytes): when an upload or an email
\* attachment brings the bytes of a stored receipt, the file written for the
\* attempt is gone after the step, the receipts are unchanged, and the files
\* of the stored receipts are kept.
C25_RejectedBytesDiscarded ==
  [][/\ \A p \in Slots :
          answered(p) /\ holders(req'[p].image) # {} =>
            /\ req'[p].path \notin uploads'
            /\ receipts' = receipts
            /\ \A r \in receipts : r.image_path \in uploads => r.image_path \in uploads'
     /\ \A m \in imagesSeen :
          holders(m.image) # {} =>
            /\ <<"email", m.id>> \notin uploads'
            /\ receipts' = receipts
            /\ \A r \in receipts : r.image_path \in uploads => r.image_path \in uploads']_vars

\* A receipt without extracted fields, unlinked, for the bytes img.
inert(n, img) ==
  /\ n.vendor = Null /\ n.receipt_date = Null /\ n.total_cents = Null
  /\ n.transaction_id = Null
  /\ n.image_sha256 = Some(sha256(img))

\* C26 (extraction failure still yields a record): when the OCR throws or
\* there is no API key, an upload and an email attachment whose bytes are not
\* stored each add an unlinked receipt without vendor, date and amount.
C26_ExtractionFailureYieldsRecord ==
  [][/\ \A p \in Slots :
          /\ \/ ~env.key /\ answered(p)
             \/ OcrSettles(p, TRUE, NoParse)
          /\ holders(req'[p].image) = {}
          => \E n \in receipts' \ receipts : inert(n, req'[p].image)
     /\ \A m \in inbox :
          /\ m.kind = "image"
          /\ ProcessEmail(m, TRUE, NoParse)
          /\ holders(m.image) = {}
          => \E n \in receipts' \ receipts : inert(n, m.image)]_vars

----------------------------------------------------------------------------
(* The ledger *)

\* t2 is t but for the two flags.
sameButFlags(t, t2) ==
  [t2 EXCEPT !.verified = t.verified, !.receipt_required = t.receipt_required] = t

\* C27 (the ledger is append-only except for two flags): in every step every
\* transaction stays, with all its fields but receipt_required and verified,
\* and a flag changes only in the step of its owner's PATCH
\* /transactions/:id/verified.
C27_LedgerAppendOnly ==
  [][\A t \in transactions :
       \E t2 \in transactions' :
         /\ t2.id = t.id
         /\ sameButFlags(t, t2)
         /\ t2.receipt_required = t.receipt_required
         /\ t2.verified # t.verified => PatchVerified(owner(t), t.id)]_vars

\* A transaction that its user has marked as verified holds a receipt that
\* has been edited since, and is still the row that was imported.
C27_Witness ==
  \E t \in transactions, r \in receipts :
    /\ t.verified = 1
    /\ r.transaction_id = Some(t.id)
    /\ r.vendor = editDunkin.vendor
    /\ t.raw_row_hash = sha256(rowChipotle)
    /\ t.description = rowChipotle.description
    /\ t.amount_cents = 4404

\* The rows of xs whose id no row of ys has.
goneFrom(xs, ys) == {x \in xs : \A y \in ys : y.id # x.id}

\* C28 (referential ownership): after every step each transaction belongs
\* to a stored statement and each reference of a receipt names a stored
\* transaction; a step that deletes a statement deletes its transactions;
\* and a step that deletes transactions keeps every receipt, with a null
\* reference where it referenced a deleted one and unchanged otherwise.
C28_ReferentialOwnership ==
  [][/\ \A t \in transactions' : \E x \in statements' : x.id = t.statement_id
     /\ \A r \in receipts' :
          r.transaction_id # Null => \E t \in transactions' : r.transaction_id = Some(t.id)
     /\ \A x \in goneFrom(statements, statements'), t \in transactions :
          t.statement_id = x.id => t \in goneFrom(transactions, transactions')
     /\ goneFrom(transactions, transactions') # {} =>
          \A r \in receipts :
            \E r2 \in receipts' :
              /\ r2.id = r.id
              /\ [r2 EXCEPT !.transaction_id = r.transaction_id] = r
              /\ r2.transaction_id =
                   IF \E t \in goneFrom(transactions, transactions') :
                        r.transaction_id = Some(t.id)
                   THEN Null ELSE r.transaction_id]_vars

\* The statements were deleted, and a receipt that its upload had matched
\* to a transaction is stored as an orphan, with its image.  (Nothing else
\* in SpecSchema clears a reference.)
C28_Witness ==
  /\ seq.statements > 0 /\ statements = {} /\ transactions = {}
  /\ \E p \in Slots, r \in receipts :
       /\ req[p].status = 200 /\ req[p].matched
       /\ r.image_path = req[p].path
       /\ r.image_path \in uploads
       /\ r.transaction_id = Null

----------------------------------------------------------------------------
(* Candidate reduction *)

\* The arrays that hold the rows of S, each once.
Orders(S) ==
  {f \in [1..Cardinality(S) -> S] : \A x \in S : \E i \in DOMAIN f : f[i] = x}

\* The assignments of the ids of S to its rows.
Relabels(S) ==
  {g \in [{t.id : t \in S} -> {t.id : t \in S}] :
     \A a \in DOMAIN g, b \in DOMAIN g : g[a] = g[b] => a = b}

relabel(t, g) == [t EXCEPT !.id = g[t.id]]

\* t passes the amount filter and the date filter for receipt r.
passes(r, t) ==
  /\ Some(t.amount_cents) = r.total_cents
  /\ diffDays(env.tz, t.posted_date, r.receipt_date) # Null
  /\ Val(diffDays(env.tz, t.posted_date, r.receipt_date)) <= 2 * 24

\* C29 (determinism of candidate reduction): for every stored receipt and
\* every set of stored transactions, findBestMatch returns the same
\* transaction, or null, for every order of the candidate array and every
\* assignment of the ids to the candidates.
C29_OrderIndependence ==
  \A r \in receipts, cands \in SUBSET transactions :
    \A f \in Orders(cands), g \in Relabels(cands) :
      findBestMatchOrdered(env.tz, r, [i \in DOMAIN f |-> relabel(f[i], g)])
        = With(findBestMatch(env.tz, r, cands), LAMBDA best :
               IF best = Null THEN Null ELSE Some(relabel(Val(best), g)))

\* A receipt with three candidates that pass the filters: one is returned
\* from all three, and from the other two, which tie, none.
C29_Witness ==
  \E r \in receipts, t \in transactions :
    /\ Cardinality({c \in transactions : passes(r, c)}) = 3
    /\ findBestMatch(env.tz, r, transactions) = Some(t)
    /\ findBestMatch(env.tz, r, transactions \ {t}) = Null

\* The elapsed time between the dates of t and r, as the process measures it.
distance(r, t) == Val(diffDays(env.tz, t.posted_date, r.receipt_date))

\* a outranks b for receipt r: more tokens of the vendor are tokens of the
\* description, whatever the case; with as many, the nearer date.
outranks(r, a, b) ==
  \/ tokenOverlap(r.vendor, a.description) > tokenOverlap(r.vendor, b.description)
  \/ /\ tokenOverlap(r.vendor, a.description) = tokenOverlap(r.vendor, b.description)
     /\ distance(r, a) < distance(r, b)

\* C30 (candidate ranking): for every stored receipt and every set of
\* stored transactions, findBestMatch returns a candidate that passes the
\* filters and outranks every other that passes (so none with a higher
\* overlap is passed over, whatever the date distances), and it returns the
\* one that outranks all others whenever there is one.
C30_CandidateRanking ==
  \A r \in receipts, cands \in SUBSET transactions :
    With(findBestMatch(env.tz, r, cands), LAMBDA best :
         /\ best # Null =>
              /\ Val(best) \in cands /\ passes(r, Val(best))
              /\ \A c \in cands \ {Val(best)} : passes(r, c) => outranks(r, Val(best), c)
         /\ \A t \in cands :
              /\ passes(r, t)
              /\ \A c \in cands \ {t} : passes(r, c) => outranks(r, t, c)
              => best = Some(t))

\* A receipt for which the candidate with the vendor's name is returned
\* although another that passes the filters is nearer in time, and a
\* receipt without a vendor for which the nearer of two candidates is
\* returned.
C30_Witness ==
  /\ \E r \in receipts, t \in transactions, c \in transactions :
       /\ findBestMatch(env.tz, r, transactions) = Some(t)
       /\ passes(r, c)
       /\ tokenOverlap(r.vendor, c.description) < tokenOverlap(r.vendor, t.description)
       /\ distance(r, c) < distance(r, t)
  /\ \E r \in receipts, t \in transactions, c \in transactions :
       /\ findBestMatch(env.tz, r, {t, c}) = Some(t)
       /\ passes(r, c)
       /\ tokenOverlap(r.vendor, c.description) = tokenOverlap(r.vendor, t.description)
       /\ distance(r, t) < distance(r, c)

----------------------------------------------------------------------------
(* Exempt transactions *)

\* The step is an upload's answer, an import or the processing of an email:
\* the steps that run the matcher.
automatic == req' # req \/ ret' # ret \/ inbox' # inbox

\* The references that the step writes: (receipt id, transaction id).
linksWritten ==
  {<<r2.id, Val(r2.transaction_id)>> :
     r2 \in {x \in receipts' : /\ x.transaction_id # Null
                               /\ \A r \in receipts :
                                    r.id = x.id => r.transaction_id # x.transaction_id}}

\* C31 (exempt transactions are never auto-linked): no upload, import sweep
\* or email ingestion writes a reference to a transaction whose
\* receipt_required is 0.
C31_ExemptNeverAutoLinked ==
  [][automatic =>
       \A l \in linksWritten, t \in transactions' :
         t.id = l[2] => t.receipt_required = 1]_vars

\* t has the amount and the date of receipt r.
sameAmountAndDate(t, r) ==
  Some(t.amount_cents) = r.total_cents /\ t.posted_date = r.receipt_date

\* An exempt transaction is the only one with the amount and date of two
\* receipts: one was assigned to it by hand, the other was uploaded, was
\* answered as unmatched and is an orphan.
C31_Witness ==
  \E t \in transactions, r1 \in receipts, r2 \in receipts, p \in Slots :
    /\ t.receipt_required = 0
    /\ \A x \in transactions : sameAmountAndDate(x, r2) => x = t
    /\ sameAmountAndDate(t, r2)
    /\ r1.transaction_id = Some(t.id)
    /\ r2.transaction_id = Null
    /\ req[p].status = 200 /\ ~req[p].matched /\ r2.image_path = req[p].path
    /\ r2.id > r1.id

----------------------------------------------------------------------------
(* Successive links *)

\* C32 (successive linking): when a receipt is uploaded and exactly one
\* transaction that already has a receipt is viable for it, the new receipt
\* is linked to that transaction exactly when the transactions without a
\* receipt yield no match for it (none is viable, or the best ones tie);
\* the receipts stored before keep their links.
C32_SuccessiveLinking ==
  [][uploadStored =>
       \A n \in receipts' \ receipts, t \in transactions :
         /\ hasReceipt(receipts, t)
         /\ viable(t, n)
         /\ \A x \in transactions : hasReceipt(receipts, x) /\ viable(x, n) => x = t
         => /\ n.transaction_id = Some(t.id) <=> Cardinality(topOf(n, tier1(n))) # 1
            /\ \A r \in receipts : r \in receipts']_vars

----------------------------------------------------------------------------
(* The matcher among the other operations *)

\* The receipts as they were when the step wrote the link of receipt id:
\* the links that the step wrote for receipts from id on are not yet there.
atWrite(id) ==
  {IF x.id >= id /\ \E l \in linksWritten : l[1] = x.id
   THEN [x EXCEPT !.transaction_id = Null]
   ELSE x : x \in receipts'}

\* C33 (match atomicity): every link that an upload, an import sweep or an
\* email ingestion writes is the one that matchReceipt chooses on the store
\* as it is when the link is written, whatever other requests are under way.
C33_MatchAtomicity ==
  [][automatic =>
       \A l \in linksWritten :
         With(matchReceipt(env.tz, transactions', atWrite(l[1]), l[1]).best, LAMBDA best :
              best # Null /\ Val(best).id = l[2])]_vars

\* An import has swept two orphans, both uploaded and answered unmatched
\* before it: the first took the transaction that the second would have
\* taken on the store as the sweep found it, the second the one left.
C33_Witness ==
  /\ ret.reason = "" /\ ret.imported = TRUE
  /\ \E r1 \in receipts, r2 \in receipts, t1 \in transactions, t2 \in transactions :
       /\ r1.id < r2.id /\ t1.id # t2.id
       /\ r1.transaction_id = Some(t1.id) /\ r2.transaction_id = Some(t2.id)
       /\ sameAmountAndDate(t1, r2) /\ sameAmountAndDate(t2, r1)
       /\ tokenOverlap(r2.vendor, t1.description) > tokenOverlap(r2.vendor, t2.description)
       /\ \A p \in Slots : req[p].status = 200 /\ ~req[p].matched

----------------------------------------------------------------------------
(* Statements and their rows *)

\* The transactions stored under statement id.
rowsOf(txns, id) == {t \in txns : t.statement_id = id}

\* C34 (no statement with zero rows): every stored statement owns at least
\* one transaction.
C34_NoEmptyStatement ==
  \A x \in statements : rowsOf(transactions, x.id) # {}

\* The lines of f after the header that are not blank.
dataLines(f) == {i \in 2..Len(f) : f[i].chars}

\* C35 (import accounting): for every import that returns imported,
\* rowsImported + rowsSkipped is the number of non-blank lines after the
\* header, and rowsImported is the number of transactions stored under the
\* statement id that is returned.
C35_ImportAccounting ==
  [][\A u \in Users, f \in Files \cup {FileCredits} :
       importOf(u, f) /\ ret'.imported =>
         /\ Val(ret'.rowsImported) + Val(ret'.rowsSkipped) = Cardinality(dataLines(f))
         /\ Val(ret'.rowsImported)
              = Cardinality(rowsOf(transactions', Val(ret'.statementId)))
         /\ rowsOf(transactions, Val(ret'.statementId)) = {}]_vars

\* The file with the same line twice was imported: one row imported, one
\* skipped, and one transaction is stored under the statement.
C35_Witness ==
  /\ ret.reason = "" /\ ret.imported = TRUE
  /\ ret.file_sha256 = sha256(FileTwice)
  /\ ret.rowsImported = Some(1) /\ ret.rowsSkipped = Some(1)
  /\ Cardinality(rowsOf(transactions, Val(ret.statementId))) = 1

----------------------------------------------------------------------------
(* The sweep as a function of the store *)

\* The orphans of the store before the step: those that the sweep of an
\* import finds, the import adding no receipt.
orphanIds == {r.id : r \in {x \in receipts : x.transaction_id = Null}}

\* The arrays that hold the ids of S, each once.
orderings(S) ==
  {f \in [1..Cardinality(S) -> S] : \A x \in S : \E i \in DOMAIN f : f[i] = x}

\* C36 (sweep order independence): the links after the sweep of an import
\* are those that the sweep leaves for every order in which it could
\* process the orphans.
C36_SweepOrderIndependence ==
  [][\A u \in Users, f \in Files \cup {FilePair} :
       importOf(u, f) /\ ret'.imported =>
         \A o \in orderings(orphanIds) :
           matchEach(env.tz, transactions', receipts, o, 1) = receipts']_vars

\* C37 (the sweep reaches a fixpoint): when an import returns, a second
\* sweep of the store links no further receipt and changes no link.
C37_SweepFixpoint ==
  [][\A u \in Users, f \in Files \cup {FilePair} :
       importOf(u, f) /\ ret'.imported =>
         matchOrphanReceipts(env.tz, transactions', receipts') = receipts']_vars

----------------------------------------------------------------------------
\* C38 (the missing count is consistent): for every user, the missing count
\* of getStats is not negative and is the number of the user's transactions
\* that getUnlinkedTransactions returns.
C38_MissingConsistent ==
  \A u \in Users :
    /\ getStats(DB, u).missing >= 0
    /\ getStats(DB, u).missing = Cardinality(getUnlinkedTransactions(DB, u))

----------------------------------------------------------------------------
(* Frame of the automatic matcher *)

\* The step is a request of the receipt's own: its assignment, or the
\* DELETE that unlinks or deletes it.
ownRequest(id) ==
  \/ \E u \in Users, t \in transactions : PostAssign(u, id, t.id)
  \/ \E u \in Users : DeleteReceipts(u, id)

\* C40 (existing links are stable under automation): a receipt with a
\* reference keeps that reference in every step that is not its own
\* assignment, unlink or delete: across imports with their sweeps and across
\* the matching of other receipts.
C40_LinksStable ==
  [][\A r \in receipts :
       r.transaction_id # Null /\ ~ownRequest(r.id) =>
         \E r2 \in receipts' : r2.id = r.id /\ r2.transaction_id = r.transaction_id]_vars

\* After the import of a second statement, a receipt is linked to a
\* transaction of the first that shares no token with its vendor, while a
\* transaction with its vendor's name, amount and date has no receipt: the
\* link is one that was assigned by hand.
C40_Witness ==
  /\ ret.reason = "" /\ ret.imported = TRUE /\ ret.statementId = Some(2)
  /\ \E r \in receipts, t \in transactions, c \in transactions :
       /\ r.transaction_id = Some(t.id)
       /\ t.statement_id = 1
       /\ tokenOverlap(r.vendor, t.description) = 0
       /\ tokenOverlap(r.vendor, c.description) > 0
       /\ sameAmountAndDate(c, r)
       /\ ~hasReceipt(receipts, c)

====
